---- MODULE Spec2Model ----
(***************************************************************************)
(* A model of salve's interleave pattern and of its walker                 *)
(* (lib/salve/patterns/interleave.ts).                                     *)
(*                                                                         *)
(* Walkers are mutable objects: they live in a heap (a sequence of         *)
(* objects, an object's identity being its index), so that sharing,        *)
(* aliasing and cloning are visible.  The walkers of the other patterns    *)
(* (Empty, Text, Attribute, Element) and the name resolver are defined in  *)
(* files of the library that are not part of the sources at hand; they are *)
(* modelled from the specification's description of them (section 4.5).    *)
(***************************************************************************)
EXTENDS Integers, Sequences, FiniteSets, TLC

VARIABLES
    pat,    \* the pattern the walker under test was created for
    heap,   \* the objects: walkers and name resolvers
    root,   \* the walker under test (an index of heap)
    twin,   \* a second walker fed the same events (a clone of root, or the
            \* walker of the commuted pattern), 0 when there is none
    memo,   \* the CloneMap given to _clone
    solo,   \* the number of operations performed on one of root and twin only
    doc,    \* the events of the document being validated
    pos,    \* the number of events of doc fired so far
    errs,   \* the errors reported for doc so far
    open,   \* history: per InterleaveWalker and branch, the number of
            \* enterStartTag events consumed minus the endTag events consumed
    last,   \* history: the last operation (with the event, if it matched),
            \* its result, the calls it made and the tag balance before it
    schema, \* the schema being converted: the root of the parsed tree
    orig,   \* history: the schema as it was parsed
    order,  \* history: the names of the schema as the renaming sorted them
    writer, \* the DefaultConversionWalker that wrote the schema
    args,   \* salve-convert: the parsed command line
    proc,   \* salve-convert: the state of the process
    called  \* history: the last call made on a conversion walker or on the
            \* regexp translator, with what it was given

validationVars ==
    <<pat, heap, root, twin, memo, solo, doc, pos, errs, open, last>>

conversionVars == <<schema, orig, order, writer, args, proc, called>>

vars == <<validationVars, conversionVars>>

(***************************************************************************)
(* Bounds of the model.                                                    *)
(***************************************************************************)
\* How deep elements nest in an element that is a branch of an interleave.
MaxDepth == 1

\* How many operations are performed on one of a walker and its clone only.
MaxSolo == 1

\* How many child elements a validated document has.
MaxChildren == 3

\* How many defines a converted schema has.
MaxDefines == 2

\* How many pieces of output jing writes.
MaxData == 2

\* How many simplification steps there are.
MaxSteps == 2

\* How many times the first simplification step is run again.
MaxRepeats == 1

(***************************************************************************)
(* Patterns (immutable).                                                   *)
(***************************************************************************)
Empty == [k |-> "Empty"]

Text == [k |-> "Text"]

Attribute(n) == [k |-> "Attribute", name |-> n]

Element(n, c) == [k |-> "Element", name |-> n, child |-> c]

Interleave(a, b) == [k |-> "Interleave", patA |-> a, patB |-> b]

RECURSIVE HasAttrs(_)
RECURSIVE HasEmptyPattern(_)
RECURSIVE ElementNames(_)
RECURSIVE AttributeNames(_)
RECURSIVE HasText(_)

\* Whether a pattern may contribute to attribute matching.
HasAttrs(p) ==
    CASE p.k = "Attribute" -> TRUE
      [] p.k = "Interleave" -> HasAttrs(p.patA) \/ HasAttrs(p.patB)
      [] OTHER -> FALSE

\* A faulty _computeHasEmptyPattern: one nullable sub-pattern is enough.
Interleave_computeHasEmptyPattern_either(p) ==
    HasEmptyPattern(p.patA) \/ HasEmptyPattern(p.patB)

\* Interleave._computeHasEmptyPattern
Interleave_computeHasEmptyPattern(p) ==
    HasEmptyPattern(p.patA) /\ HasEmptyPattern(p.patB)

\* Nullability of a pattern.
HasEmptyPattern(p) ==
    CASE p.k = "Empty" -> TRUE
      [] p.k = "Text" -> TRUE
      [] p.k = "Interleave" -> Interleave_computeHasEmptyPattern(p)
      [] OTHER -> FALSE

\* The names of the elements, the names of the attributes and the presence of
\* text a pattern can match at its own level (not inside an element).
ElementNames(p) ==
    CASE p.k = "Element" -> {p.name}
      [] p.k = "Interleave" -> ElementNames(p.patA) \cup ElementNames(p.patB)
      [] OTHER -> {}

AttributeNames(p) ==
    CASE p.k = "Attribute" -> {p.name}
      [] p.k = "Interleave" -> AttributeNames(p.patA) \cup AttributeNames(p.patB)
      [] OTHER -> {}

HasText(p) ==
    CASE p.k = "Text" -> TRUE
      [] p.k = "Interleave" -> HasText(p.patA) \/ HasText(p.patB)
      [] OTHER -> FALSE

\* Relax NG's restrictions on interleave: the two branches match no element
\* or attribute of the same name, and text occurs in one of them at most.
NoOverlap(a, b) ==
    /\ ElementNames(a) \cap ElementNames(b) = {}
    /\ AttributeNames(a) \cap AttributeNames(b) = {}
    /\ ~(HasText(a) /\ HasText(b))

RECURSIVE Inside(_)
\* The element patterns nesting at most n deep that occur inside an element.
Inside(n) ==
    IF n = 0 THEN {}
    ELSE { Element("c", c) : c \in {Empty} \cup Inside(n - 1) }

\* The element patterns of a branch: elements nest at most n deep in them.
Elements(n) ==
    { Element("a", c) : c \in {Empty} \cup Inside(n - 1) } \cup
    { Element("b", c) : c \in {Text} \cup Inside(n - 1) }

Leaves == { Empty, Text, Attribute("x"), Attribute("y") } \cup Elements(MaxDepth)

Pairs(S, T) == { ab \in (S \X T) \cup (T \X S) : NoOverlap(ab[1], ab[2]) }

\* Interleaves of two leaves.
Flat == { Interleave(ab[1], ab[2]) : ab \in Pairs(Leaves, Leaves) }

\* An interleave nested in a branch of an interleave, on either side.
Inner ==
    { Interleave(ab[1], ab[2]) : ab \in
        Pairs({ Empty, Text, Attribute("x"), Element("a", Empty) },
              { Empty, Text, Attribute("x"), Element("a", Empty) }) }

Nested ==
    { Interleave(ab[1], ab[2]) : ab \in
        Pairs(Inner, { Empty, Attribute("y"), Element("b", Text) }) }

\* The patterns a walker under test is created for.
Roots == Flat \cup Nested

\* The patterns of the walkers that are cloned.
CloneRoots ==
    Flat \cup { Interleave(ab[1], ab[2]) : ab \in Pairs(Inner, {Empty}) }

(***************************************************************************)
(* Events.                                                                 *)
(***************************************************************************)
Ev(n, p) == [name |-> n, p |-> p]

Events ==
    { Ev("enterStartTag", n) : n \in {"a", "b", "c"} } \cup
    { Ev("endTag", n) : n \in {"a", "b", "c"} } \cup
    { Ev("attributeName", n) : n \in {"x", "y"} } \cup
    { Ev("leaveStartTag", ""), Ev("attributeValue", "v"), Ev("text", "t") }

isAttributeEvent(name) == name \in {"attributeName", "attributeValue"}

(***************************************************************************)
(* Results and the record of the calls made.                               *)
(***************************************************************************)
\* InternalFireEventResult, with the heap the call leaves and the calls made.
FireResult(m, es, h, log) ==
    [matched |-> m, errors |-> es, h |-> h, log |-> log]

\* EndResult: ok stands for the value false, errors for a ValidationError[].
EndResult(ok, es, h, log) ==
    [ok |-> ok, errors |-> es, h |-> h, log |-> log]

\* InterleaveWalker iw called fireEvent on its branch br.
FireCall(iw, br, m) == [t |-> "fire", iw |-> iw, br |-> br, matched |-> m]

\* end() was called on InterleaveWalker iw, whose canEnd was ce.
EndCall(iw, ce, ok) == [t |-> "end", iw |-> iw, canEnd |-> ce, ok |-> ok]

(***************************************************************************)
(* The name resolver: a stack of contexts, of which the depth is kept.     *)
(***************************************************************************)
NewNameResolver == [k |-> "NameResolver", depth |-> 0]

enterContext(h, nr) == [h EXCEPT ![nr].depth = @ + 1]

leaveContext(h, nr) == [h EXCEPT ![nr].depth = @ - 1]

(***************************************************************************)
(* Construction of walkers.                                                *)
(***************************************************************************)
RECURSIVE newWalker(_, _, _)

Alloc(h, obj) == [h |-> Append(h, obj), id |-> Len(h) + 1]

\* InterleaveWalker.constructor(el, nameResolver)
NewInterleaveWalker(h, el, nameResolver) ==
    LET a == newWalker(h, el.patA, nameResolver)
        b == newWalker(a.h, el.patB, nameResolver)
        hasAttrs == HasAttrs(el)
    IN  Alloc(b.h,
              [k |-> "Interleave",
               nameResolver |-> nameResolver,
               ended |-> FALSE,
               hasAttrs |-> hasAttrs,
               walkerA |-> a.id,
               walkerB |-> b.id,
               canEndAttribute |->
                   ~hasAttrs \/ (b.h[a.id].canEndAttribute /\
                                 b.h[b.id].canEndAttribute),
               canEnd |-> b.h[a.id].canEnd /\ b.h[b.id].canEnd])

newWalker(h, p, nameResolver) ==
    CASE p.k = "Empty" ->
           Alloc(h, [k |-> "Empty", canEnd |-> TRUE, canEndAttribute |-> TRUE])
      [] p.k = "Text" ->
           Alloc(h, [k |-> "Text", canEnd |-> TRUE, canEndAttribute |-> TRUE])
      [] p.k = "Attribute" ->
           Alloc(h, [k |-> "Attribute", name |-> p.name, st |-> "expectName",
                     canEnd |-> FALSE, canEndAttribute |-> FALSE])
      [] p.k = "Element" ->
           LET c == newWalker(h, p.child, nameResolver)
           IN  Alloc(c.h, [k |-> "Element", name |-> p.name,
                           st |-> "expectStart", walker |-> c.id,
                           nameResolver |-> nameResolver,
                           canEnd |-> FALSE, canEndAttribute |-> TRUE])
      [] p.k = "Interleave" -> NewInterleaveWalker(h, p, nameResolver)

(***************************************************************************)
(* fireEvent, end and endAttributes.                                       *)
(***************************************************************************)
RECURSIVE fireEvent(_, _, _)
RECURSIVE end(_, _)
RECURSIVE endAttributes(_, _)

NoMatch(h) == FireResult(FALSE, <<>>, h, {})

\* AttributeWalker.fireEvent: the name, then the value.
Attribute_fireEvent(h, id, ev) ==
    LET w == h[id]
    IN  IF w.st = "expectName" /\ ev.name = "attributeName" /\ ev.p = w.name
        THEN FireResult(TRUE, <<>>, [h EXCEPT ![id].st = "expectValue"], {})
        ELSE IF w.st = "expectValue" /\ ev.name = "attributeValue"
        THEN FireResult(TRUE, <<>>,
                        [h EXCEPT ![id].st = "done",
                                  ![id].canEnd = TRUE,
                                  ![id].canEndAttribute = TRUE], {})
        ELSE NoMatch(h)

\* ElementWalker.fireEvent: expectStart, inAttributes, inContent, ended.
Element_fireEvent(h, id, ev) ==
    LET w == h[id]
    IN  CASE w.st = "expectStart" ->
               IF ev.name = "enterStartTag" /\ ev.p = w.name
               THEN FireResult(TRUE, <<>>,
                               enterContext([h EXCEPT ![id].st = "inAttributes"],
                                            w.nameResolver), {})
               ELSE NoMatch(h)
          [] w.st = "inAttributes" ->
               IF ev.name = "leaveStartTag"
               THEN LET r == endAttributes(h, w.walker)
                    IN  FireResult(TRUE, r.errors,
                                   [r.h EXCEPT ![id].st = "inContent"], r.log)
               ELSE IF isAttributeEvent(ev.name)
               THEN fireEvent(h, w.walker, ev)
               ELSE NoMatch(h)
          [] w.st = "inContent" ->
               LET r == fireEvent(h, w.walker, ev)
               IN  IF r.matched THEN r
                   ELSE IF ev.name = "endTag" /\ ev.p = w.name
                   THEN LET e == end(r.h, w.walker)
                        IN  FireResult(TRUE, e.errors,
                                leaveContext([e.h EXCEPT ![id].st = "ended",
                                                         ![id].canEnd = TRUE],
                                             w.nameResolver),
                                r.log \cup e.log)
                   ELSE r
          [] OTHER -> NoMatch(h)

\* A faulty fireEvent: canEnd is not recomputed when walkerB matched.
Interleave_fireEvent_staleCanEnd(h, id, ev) ==
    LET this == h[id]
        evIsAttributeEvent == isAttributeEvent(ev.name)
        walkerA == this.walkerA
        walkerB == this.walkerB
        retA == fireEvent(h, walkerA, ev)
        retB == fireEvent(retA.h, walkerB, ev)
        logA == retA.log \cup {FireCall(id, "A", retA.matched)}
        logB == logA \cup retB.log \cup {FireCall(id, "B", retB.matched)}
        updateAttribute(g) ==
            [g EXCEPT
               ![id].canEndAttribute =
                   IF evIsAttributeEvent
                   THEN g[walkerA].canEndAttribute /\ g[walkerB].canEndAttribute
                   ELSE @]
        update(g) ==
            [updateAttribute(g) EXCEPT
               ![id].canEnd = g[walkerA].canEnd /\ g[walkerB].canEnd]
    IN  IF evIsAttributeEvent /\ ~this.hasAttrs THEN NoMatch(h)
        ELSE IF this.ended THEN NoMatch(h)
        ELSE IF retA.matched
        THEN FireResult(TRUE, retA.errors, update(retA.h), logA)
        ELSE IF retB.matched
        THEN FireResult(TRUE, retB.errors, updateAttribute(retB.h), logB)
        ELSE FireResult(FALSE, <<>>, retB.h, logB)

\* A faulty fireEvent: canEndAttribute is not recomputed when walkerB matched.
Interleave_fireEvent_staleCanEndAttribute(h, id, ev) ==
    LET this == h[id]
        evIsAttributeEvent == isAttributeEvent(ev.name)
        walkerA == this.walkerA
        walkerB == this.walkerB
        retA == fireEvent(h, walkerA, ev)
        retB == fireEvent(retA.h, walkerB, ev)
        logA == retA.log \cup {FireCall(id, "A", retA.matched)}
        logB == logA \cup retB.log \cup {FireCall(id, "B", retB.matched)}
        updateCanEnd(g) ==
            [g EXCEPT ![id].canEnd = g[walkerA].canEnd /\ g[walkerB].canEnd]
        update(g) ==
            [updateCanEnd(g) EXCEPT
               ![id].canEndAttribute =
                   IF evIsAttributeEvent
                   THEN g[walkerA].canEndAttribute /\ g[walkerB].canEndAttribute
                   ELSE @]
    IN  IF evIsAttributeEvent /\ ~this.hasAttrs THEN NoMatch(h)
        ELSE IF this.ended THEN NoMatch(h)
        ELSE IF retA.matched
        THEN FireResult(TRUE, retA.errors, update(retA.h), logA)
        ELSE IF retB.matched
        THEN FireResult(TRUE, retB.errors, updateCanEnd(retB.h), logB)
        ELSE FireResult(FALSE, <<>>, retB.h, logB)

\* A faulty fireEvent: walkerB is asked even when walkerA matched.
Interleave_fireEvent_asksBoth(h, id, ev) ==
    LET this == h[id]
        evIsAttributeEvent == isAttributeEvent(ev.name)
        walkerA == this.walkerA
        walkerB == this.walkerB
        retA == fireEvent(h, walkerA, ev)
        retB == fireEvent(retA.h, walkerB, ev)
        logA == retA.log \cup {FireCall(id, "A", retA.matched)}
        logB == logA \cup retB.log \cup {FireCall(id, "B", retB.matched)}
        update(g) ==
            [g EXCEPT
               ![id].canEndAttribute =
                   IF evIsAttributeEvent
                   THEN g[walkerA].canEndAttribute /\ g[walkerB].canEndAttribute
                   ELSE @,
               ![id].canEnd = g[walkerA].canEnd /\ g[walkerB].canEnd]
    IN  IF evIsAttributeEvent /\ ~this.hasAttrs THEN NoMatch(h)
        ELSE IF this.ended THEN NoMatch(h)
        ELSE IF retA.matched
        THEN FireResult(TRUE, retA.errors, update(retB.h), logB)
        ELSE IF retB.matched
        THEN FireResult(TRUE, retB.errors, update(retB.h), logB)
        ELSE FireResult(FALSE, <<>>, retB.h, logB)

\* InterleaveWalker.fireEvent
Interleave_fireEvent(h, id, ev) ==
    LET this == h[id]
        evIsAttributeEvent == isAttributeEvent(ev.name)
        walkerA == this.walkerA
        walkerB == this.walkerB
        retA == fireEvent(h, walkerA, ev)
        retB == fireEvent(retA.h, walkerB, ev)
        logA == retA.log \cup {FireCall(id, "A", retA.matched)}
        logB == logA \cup retB.log \cup {FireCall(id, "B", retB.matched)}
        update(g) ==
            [g EXCEPT
               ![id].canEndAttribute =
                   IF evIsAttributeEvent
                   THEN g[walkerA].canEndAttribute /\ g[walkerB].canEndAttribute
                   ELSE @,
               ![id].canEnd = g[walkerA].canEnd /\ g[walkerB].canEnd]
    IN  IF evIsAttributeEvent /\ ~this.hasAttrs THEN NoMatch(h)
        ELSE IF this.ended THEN NoMatch(h)
        ELSE IF retA.matched
        THEN FireResult(TRUE, retA.errors, update(retA.h), logA)
        ELSE IF retB.matched
        THEN FireResult(TRUE, retB.errors, update(retB.h), logB)
        ELSE FireResult(FALSE, <<>>, retB.h, logB)

fireEvent(h, id, ev) ==
    CASE h[id].k = "Attribute" -> Attribute_fireEvent(h, id, ev)
      [] h[id].k = "Element" -> Element_fireEvent(h, id, ev)
      [] h[id].k = "Interleave" -> Interleave_fireEvent(h, id, ev)
      [] h[id].k = "Text" -> FireResult(ev.name = "text", <<>>, h, {})
      [] OTHER -> NoMatch(h)

\* A faulty end: the walker is marked ended whether or not it can end.
Interleave_end_markEnded(h, id) ==
    LET this == h[id]
        g == [h EXCEPT ![id].ended = TRUE]
        retA == end(g, this.walkerA)
        retB == end(retA.h, this.walkerB)
        log == retA.log \cup retB.log
    IN  IF this.ended
        THEN EndResult(TRUE, <<>>, h, {EndCall(id, this.canEnd, TRUE)})
        ELSE IF this.canEnd
        THEN EndResult(TRUE, <<>>, g, {EndCall(id, this.canEnd, TRUE)})
        ELSE IF ~retA.ok
        THEN EndResult(FALSE,
                       IF retB.ok THEN retA.errors ELSE retA.errors \o retB.errors,
                       retB.h, log \cup {EndCall(id, this.canEnd, FALSE)})
        ELSE EndResult(retB.ok, retB.errors, retB.h,
                       log \cup {EndCall(id, this.canEnd, retB.ok)})

\* A faulty end: the result of walkerB.end() is dropped.
Interleave_end_dropB(h, id) ==
    LET this == h[id]
        retA == end(h, this.walkerA)
        retB == end(retA.h, this.walkerB)
        log == retA.log \cup retB.log
    IN  IF this.ended
        THEN EndResult(TRUE, <<>>, h, {EndCall(id, this.canEnd, TRUE)})
        ELSE IF this.canEnd
        THEN EndResult(TRUE, <<>>, [h EXCEPT ![id].ended = TRUE],
                       {EndCall(id, this.canEnd, TRUE)})
        ELSE EndResult(retA.ok, retA.errors, retB.h,
                       log \cup {EndCall(id, this.canEnd, retA.ok)})

\* InterleaveWalker.end
Interleave_end(h, id) ==
    LET this == h[id]
        retA == end(h, this.walkerA)
        retB == end(retA.h, this.walkerB)
        log == retA.log \cup retB.log
    IN  IF this.ended
        THEN EndResult(TRUE, <<>>, h, {EndCall(id, this.canEnd, TRUE)})
        ELSE IF this.canEnd
        THEN EndResult(TRUE, <<>>, [h EXCEPT ![id].ended = TRUE],
                       {EndCall(id, this.canEnd, TRUE)})
        ELSE IF ~retA.ok
        THEN EndResult(FALSE,
                       IF retB.ok THEN retA.errors ELSE retA.errors \o retB.errors,
                       retB.h, log \cup {EndCall(id, this.canEnd, FALSE)})
        ELSE EndResult(retB.ok, retB.errors, retB.h,
                       log \cup {EndCall(id, this.canEnd, retB.ok)})

end(h, id) ==
    CASE h[id].k = "Attribute" ->
           IF h[id].canEnd THEN EndResult(TRUE, <<>>, h, {})
           ELSE EndResult(FALSE, <<[e |-> "AttributeNameError", name |-> h[id].name]>>, h, {})
      [] h[id].k = "Element" ->
           IF h[id].canEnd THEN EndResult(TRUE, <<>>, h, {})
           ELSE EndResult(FALSE, <<[e |-> "ElementNameError", name |-> h[id].name]>>, h, {})
      [] h[id].k = "Interleave" -> Interleave_end(h, id)
      [] OTHER -> EndResult(TRUE, <<>>, h, {})

\* InterleaveWalker.endAttributes
Interleave_endAttributes(h, id) ==
    LET this == h[id]
        retA == endAttributes(h, this.walkerA)
        retB == endAttributes(retA.h, this.walkerB)
        log == retA.log \cup retB.log
    IN  IF this.ended \/ this.canEndAttribute
        THEN EndResult(TRUE, <<>>, h, {})
        ELSE IF ~retA.ok
        THEN EndResult(FALSE,
                       IF ~retB.ok THEN retA.errors \o retB.errors ELSE retA.errors,
                       retB.h, log)
        ELSE EndResult(retB.ok, retB.errors, retB.h, log)

endAttributes(h, id) ==
    CASE h[id].k = "Attribute" ->
           IF h[id].canEndAttribute THEN EndResult(TRUE, <<>>, h, {})
           ELSE EndResult(FALSE, <<[e |-> "AttributeNameError", name |-> h[id].name]>>, h, {})
      [] h[id].k = "Interleave" -> Interleave_endAttributes(h, id)
      [] OTHER -> EndResult(TRUE, <<>>, h, {})

(***************************************************************************)
(* possible and possibleAttributes: the events a walker would accept.      *)
(***************************************************************************)
RECURSIVE possible(_, _)
RECURSIVE possibleAttributes(_, _)

\* A faulty possible: the branches are asked though the walker has ended.
Interleave_possible_ignoresEnded(h, id) ==
    possible(h, h[id].walkerA) \cup possible(h, h[id].walkerB)

\* InterleaveWalker.possible
Interleave_possible(h, id) ==
    IF h[id].ended THEN {}
    ELSE possible(h, h[id].walkerA) \cup possible(h, h[id].walkerB)

\* InterleaveWalker.possibleAttributes
Interleave_possibleAttributes(h, id) ==
    IF h[id].ended THEN {}
    ELSE possibleAttributes(h, h[id].walkerA)
             \cup possibleAttributes(h, h[id].walkerB)

Attribute_possible(h, id) ==
    CASE h[id].st = "expectName" -> {Ev("attributeName", h[id].name)}
      [] h[id].st = "expectValue" -> {Ev("attributeValue", "v")}
      [] OTHER -> {}

possible(h, id) ==
    CASE h[id].k = "Attribute" -> Attribute_possible(h, id)
      [] h[id].k = "Element" ->
           CASE h[id].st = "expectStart" ->
                  {Ev("enterStartTag", h[id].name)}
             [] h[id].st = "inAttributes" ->
                  possibleAttributes(h, h[id].walker)
                      \cup {Ev("leaveStartTag", "")}
             [] h[id].st = "inContent" ->
                  possible(h, h[id].walker)
                      \cup (IF h[h[id].walker].canEnd
                            THEN {Ev("endTag", h[id].name)} ELSE {})
             [] OTHER -> {}
      [] h[id].k = "Interleave" -> Interleave_possible(h, id)
      [] h[id].k = "Text" -> {Ev("text", "t")}
      [] OTHER -> {}

possibleAttributes(h, id) ==
    CASE h[id].k = "Attribute" -> Attribute_possible(h, id)
      [] h[id].k = "Element" ->
           IF h[id].st = "inAttributes"
           THEN possibleAttributes(h, h[id].walker) ELSE {}
      [] h[id].k = "Interleave" -> Interleave_possibleAttributes(h, id)
      [] OTHER -> {}

(***************************************************************************)
(* Cloning.                                                                *)
(***************************************************************************)
RECURSIVE clone(_, _, _)

Cloned(h, id, m) == [h |-> h, id |-> id, memo |-> m]

\* cloneIfNeeded(obj, memo): the clone memo holds for obj, made if need be.
cloneIfNeeded(h, obj, m) ==
    IF obj \in DOMAIN m THEN Cloned(h, m[obj], m)
    ELSE LET c == clone(h, obj, m)
         IN  Cloned(c.h, c.id, (obj :> c.id) @@ c.memo)

\* A faulty clone: walkerA is shared with the original instead of cloned.
Interleave_clone_sharedA(h, id, m) ==
    LET walker == h[id]
        nr == cloneIfNeeded(h, walker.nameResolver, m)
        b == clone(nr.h, walker.walkerB, nr.memo)
        this == Alloc(b.h,
                      [k |-> "Interleave",
                       nameResolver |-> nr.id,
                       ended |-> walker.ended,
                       hasAttrs |-> walker.hasAttrs,
                       walkerA |-> walker.walkerA,
                       walkerB |-> b.id,
                       canEndAttribute |-> walker.canEndAttribute,
                       canEnd |-> walker.canEnd])
    IN  Cloned(this.h, this.id, b.memo)

\* InterleaveWalker.constructor(walker, memo), which is InterleaveWalker._clone
Interleave_clone(h, id, m) ==
    LET walker == h[id]
        nr == cloneIfNeeded(h, walker.nameResolver, m)
        a == clone(nr.h, walker.walkerA, nr.memo)
        b == clone(a.h, walker.walkerB, a.memo)
        this == Alloc(b.h,
                      [k |-> "Interleave",
                       nameResolver |-> nr.id,
                       ended |-> walker.ended,
                       hasAttrs |-> walker.hasAttrs,
                       walkerA |-> a.id,
                       walkerB |-> b.id,
                       canEndAttribute |-> walker.canEndAttribute,
                       canEnd |-> walker.canEnd])
    IN  Cloned(this.h, this.id, b.memo)

\* _clone(memo) of every kind of object.
clone(h, id, m) ==
    CASE h[id].k = "Interleave" -> Interleave_clone(h, id, m)
      [] h[id].k = "Element" ->
           LET nr == cloneIfNeeded(h, h[id].nameResolver, m)
               c == clone(nr.h, h[id].walker, nr.memo)
               this == Alloc(c.h, [h[id] EXCEPT !.nameResolver = nr.id,
                                               !.walker = c.id])
           IN  Cloned(this.h, this.id, c.memo)
      [] OTHER ->
           LET this == Alloc(h, h[id])
           IN  Cloned(this.h, this.id, m)

RECURSIVE State(_, _)
\* The state of an object and of the objects it refers to, identities left
\* out: what the behaviour of a walker depends on.
State(h, id) ==
    CASE h[id].k = "Interleave" ->
           [h[id] EXCEPT !.nameResolver = State(h, @),
                         !.walkerA = State(h, @),
                         !.walkerB = State(h, @)]
      [] h[id].k = "Element" ->
           [h[id] EXCEPT !.nameResolver = State(h, @),
                         !.walker = State(h, @)]
      [] OTHER -> h[id]

(***************************************************************************)
(* The walker under test and the operations its caller performs.           *)
(***************************************************************************)
InterleaveIds(h) == { i \in 1..Len(h) : h[i].k = "Interleave" }

NoEvent == Ev("", "")

\* What an operation returned: matched for fireEvent, ok for end and
\* endAttributes, and the errors.
Res(m, ok, es) == [matched |-> m, ok |-> ok, errors |-> es]

NoRes == Res(FALSE, TRUE, <<>>)

FireRes(r) == Res(r.matched, TRUE, r.errors)

EndRes(r) == Res(FALSE, r.ok, r.errors)

Last(op, ev, res, log, opn, who, other, id) ==
    [op |-> op, ev |-> ev, res |-> res, log |-> log, open |-> opn,
     who |-> who, other |-> other, id |-> id]

\* The tag balance of the branches after an event and the calls it made.
Balance(opn, log, ev) ==
    LET d == CASE ev.name = "enterStartTag" -> 1
               [] ev.name = "endTag" -> -1
               [] OTHER -> 0
    IN  [i \in DOMAIN opn |->
           [br \in {"A", "B"} |->
              IF FireCall(i, br, TRUE) \in log THEN opn[i][br] + d
              ELSE opn[i][br]]]

NoOpen(h) == [i \in InterleaveIds(h) |-> [br \in {"A", "B"} |-> 0]]

\* grammar.newWalker: a name resolver and the walker of the pattern.
Construct(p) ==
    LET w == newWalker(<<NewNameResolver>>, p, 1)
    IN  /\ pat = p
        /\ heap = w.h
        /\ root = w.id
        /\ open = NoOpen(w.h)
        /\ last = Last("new", NoEvent, NoRes, {}, NoOpen(w.h), "root", NoRes, w.id)

\* The walker that wrote nothing.
NoWalker == [thrown |-> "no walker"]

\* No command is being run.
NoCommand == args = <<>> /\ proc = <<>>

\* No call was made.
NoCall == [op |-> "none", n |-> 0]

\* Nothing is being converted.
NoConversion ==
    /\ schema = <<>> /\ orig = <<>> /\ order = <<>> /\ writer = NoWalker
    /\ NoCommand /\ called = NoCall

Alone ==
    /\ twin = 0 /\ memo = <<>> /\ solo = 0
    /\ doc = <<>> /\ pos = 0 /\ errs = <<>>
    /\ NoConversion

Init == (\E p \in Roots : Construct(p)) /\ Alone

Fire(ev) ==
    LET r == fireEvent(heap, root, ev)
    IN  /\ twin = 0
        /\ heap' = r.h
        /\ open' = Balance(open, r.log, ev)
        /\ last' = Last("fireEvent", IF r.matched THEN ev ELSE NoEvent,
                        FireRes(r), r.log, open, "root", NoRes, root)
        /\ UNCHANGED <<conversionVars, pat, root, twin, memo, solo, doc, pos, errs>>

End ==
    LET r == end(heap, root)
    IN  /\ twin = 0
        /\ heap' = r.h
        /\ last' = Last("end", NoEvent, EndRes(r), r.log, open, "root", NoRes, root)
        /\ UNCHANGED <<conversionVars, pat, root, twin, memo, solo, doc, pos, errs, open>>

EndAttributes ==
    LET r == endAttributes(heap, root)
    IN  /\ twin = 0
        /\ heap' = r.h
        /\ last' = Last("endAttributes", NoEvent, EndRes(r), r.log, open, "root",
                        NoRes, root)
        /\ UNCHANGED <<conversionVars, pat, root, twin, memo, solo, doc, pos, errs, open>>

FireAny == \E ev \in Events : Fire(ev)

Next == FireAny \/ End \/ EndAttributes

Spec == Init /\ [][Next]_vars

(***************************************************************************)
(* A walker and its clone.                                                 *)
(***************************************************************************)
\* twin becomes root._clone(memo), memo being empty.
Clone ==
    LET c == clone(heap, root, <<>>)
    IN  /\ twin = 0
        /\ heap' = c.h
        /\ twin' = c.id
        /\ memo' = c.memo
        /\ last' = Last("clone", NoEvent, NoRes, {}, open, "root", NoRes, c.id)
        /\ UNCHANGED <<conversionVars, pat, root, solo, doc, pos, errs, open>>

\* root._clone(memo) once more, with the memo of the first call.
CloneAgain ==
    LET c == clone(heap, root, memo)
    IN  /\ last.op = "clone"
        /\ heap' = c.h
        /\ memo' = c.memo
        /\ last' = Last("cloneAgain", NoEvent, NoRes, {}, open, "root", NoRes, c.id)
        /\ UNCHANGED <<conversionVars, pat, root, twin, solo, doc, pos, errs, open>>

Paired == twin # 0 /\ last.op # "cloneAgain"

\* Of the operations on a walker and its twin the results are kept, the calls
\* made are not.

\* The same event fired on root, then on twin.
FireBoth(ev) ==
    LET r1 == fireEvent(heap, root, ev)
        r2 == fireEvent(r1.h, twin, ev)
    IN  /\ Paired /\ solo = 0
        /\ heap' = r2.h
        /\ open' = Balance(open, r1.log \cup r2.log, ev)
        /\ last' = Last("fireEvent", IF r1.matched THEN ev ELSE NoEvent,
                        FireRes(r1), {}, open, "both", FireRes(r2), root)
        /\ UNCHANGED <<conversionVars, pat, root, twin, memo, solo, doc, pos, errs>>

EndBoth ==
    LET r1 == end(heap, root)
        r2 == end(r1.h, twin)
    IN  /\ Paired /\ solo = 0
        /\ heap' = r2.h
        /\ last' = Last("end", NoEvent, EndRes(r1), {}, open, "both",
                        EndRes(r2), root)
        /\ UNCHANGED <<conversionVars, pat, root, twin, memo, solo, doc, pos, errs, open>>

EndAttributesBoth ==
    LET r1 == endAttributes(heap, root)
        r2 == endAttributes(r1.h, twin)
    IN  /\ Paired /\ solo = 0
        /\ heap' = r2.h
        /\ last' = Last("endAttributes", NoEvent, EndRes(r1), {}, open, "both",
                        EndRes(r2), root)
        /\ UNCHANGED <<conversionVars, pat, root, twin, memo, solo, doc, pos, errs, open>>

Walker(who) == IF who = "root" THEN root ELSE twin

\* An event fired on one of root and twin only.
FireOne(who, ev) ==
    LET r == fireEvent(heap, Walker(who), ev)
    IN  /\ Paired /\ solo < MaxSolo
        /\ heap' = r.h
        /\ solo' = solo + 1
        /\ open' = Balance(open, r.log, ev)
        /\ last' = Last("fireEvent", IF r.matched THEN ev ELSE NoEvent,
                        FireRes(r), {}, open, who, NoRes, Walker(who))
        /\ UNCHANGED <<conversionVars, pat, root, twin, memo, doc, pos, errs>>

EndOne(who) ==
    LET r == end(heap, Walker(who))
    IN  /\ Paired /\ solo < MaxSolo
        /\ heap' = r.h
        /\ solo' = solo + 1
        /\ last' = Last("end", NoEvent, EndRes(r), {}, open, who, NoRes,
                        Walker(who))
        /\ UNCHANGED <<conversionVars, pat, root, twin, memo, doc, pos, errs, open>>

FireBothAny == \E ev \in Events : FireBoth(ev)

FireOneAny == \E who \in {"root", "twin"} : \E ev \in Events : FireOne(who, ev)

EndOneAny == \E who \in {"root", "twin"} : EndOne(who)

NextClone ==
    \/ FireAny \/ End \/ EndAttributes
    \/ Clone \/ CloneAgain
    \/ FireBothAny \/ EndBoth \/ EndAttributesBoth
    \/ FireOneAny \/ EndOneAny

InitClone == (\E p \in CloneRoots : Construct(p)) /\ Alone

SpecClone == InitClone /\ [][NextClone]_vars

(***************************************************************************)
(* The walkers of Interleave(a, b) and of Interleave(b, a), fed the same   *)
(* events.                                                                 *)
(***************************************************************************)
InitComm ==
    /\ \E p \in Roots :
          LET w1 == newWalker(<<NewNameResolver>>, p, 1)
              nr == Alloc(w1.h, NewNameResolver)
              w2 == newWalker(nr.h, Interleave(p.patB, p.patA), nr.id)
          IN  /\ pat = p
              /\ heap = w2.h
              /\ root = w1.id
              /\ twin = w2.id
              /\ open = NoOpen(w2.h)
              /\ last = Last("new", NoEvent, NoRes, {}, NoOpen(w2.h), "both",
                             NoRes, w1.id)
    /\ memo = <<>> /\ solo = 0
    /\ doc = <<>> /\ pos = 0 /\ errs = <<>>
    /\ NoConversion

NextComm == FireBothAny \/ EndBoth \/ EndAttributesBoth

SpecComm == InitComm /\ [][NextComm]_vars

(***************************************************************************)
(* Documents <foo>...</foo> validated against                              *)
(* element foo { interleave { element a { empty }, element b { empty } } } *)
(***************************************************************************)
FooPattern ==
    Element("foo", Interleave(Element("a", Empty), Element("b", Empty)))

RECURSIVE ChildEvents(_)
\* The events of a sequence of empty child elements.
ChildEvents(names) ==
    IF names = <<>> THEN <<>>
    ELSE << Ev("enterStartTag", Head(names)), Ev("leaveStartTag", ""),
            Ev("endTag", Head(names)) >> \o ChildEvents(Tail(names))

\* The events of <foo> with the children named.
Doc(names) ==
    << Ev("enterStartTag", "foo"), Ev("leaveStartTag", "") >>
        \o ChildEvents(names) \o << Ev("endTag", "foo") >>

InitDoc ==
    /\ Construct(FooPattern)
    /\ \E n \in 0..MaxChildren : \E names \in [1..n -> {"a", "b"}] :
          doc = Doc(names)
    /\ pos = 0 /\ errs = <<>>
    /\ twin = 0 /\ memo = <<>> /\ solo = 0
    /\ NoConversion

\* The next event of the document is fired; an event that is not matched is
\* an error the caller reports.
Step ==
    LET ev == doc[pos + 1]
        r == fireEvent(heap, root, ev)
    IN  /\ pos < Len(doc)
        /\ heap' = r.h
        /\ pos' = pos + 1
        /\ errs' = errs \o (IF r.matched THEN r.errors
                            ELSE <<[e |-> "ValidationError", name |-> ev.p]>>)
        /\ open' = Balance(open, r.log, ev)
        /\ last' = Last("fireEvent", IF r.matched THEN ev ELSE NoEvent,
                        FireRes(r), r.log, open, "root", NoRes, root)
        /\ UNCHANGED <<conversionVars, pat, root, twin, memo, solo, doc>>

NextDoc == Step

SpecDoc == InitDoc /\ [][NextDoc]_vars

(***************************************************************************)
(* The conversion of a schema to JSON (conversion walkers).                *)
(*                                                                         *)
(* A string is a sequence of characters.  An element of the parsed schema  *)
(* is a record: its local name, its attributes, its text, its path and its *)
(* child elements.  The output of the JSON writer is a sequence of tokens, *)
(* one for each piece of text the writer appends to its output.            *)
(***************************************************************************)
DigitChars == <<"0", "1", "2", "3", "4", "5", "6", "7", "8", "9">>

\* /^\d+$/.test(name)
IsDigits(s) ==
    /\ Len(s) > 0
    /\ \A i \in 1..Len(s) : \E d \in 1..Len(DigitChars) : s[i] = DigitChars[d]

RECURSIVE parseInt(_)
\* parseInt of a string of decimal digits.
parseInt(s) ==
    IF s = <<>> THEN 0
    ELSE LET d == CHOOSE d \in 1..Len(DigitChars) : DigitChars[d] = s[Len(s)]
         IN  parseInt(SubSeq(s, 1, Len(s) - 1)) * 10 + (d - 1)

RECURSIVE String(_)
\* String(id) of a non-negative integer.
String(id) ==
    IF id < 10 THEN <<DigitChars[id + 1]>>
    ELSE String(id \div 10) \o <<DigitChars[(id % 10) + 1]>>

\* What reading a property that Object.prototype defines, and the object
\* does not, gives: an object, not a string.
ObjectPrototype == <<"[object Object]">>

ParsedElement(local, name, text, children) ==
    [local |-> local, name |-> name, text |-> text,
     path |-> <<"/", local>>, type |-> <<"t", "o", "k", "e", "n">>,
     datatypeLibrary |-> <<>>, ns |-> <<>>, children |-> children]

\* The tokens of the output.
Raw(s) == [t |-> "raw", v |-> s]
Num(n) == [t |-> "num", n |-> n]
Quoted(s) == [t |-> "str", s |-> s]
Header(o) == [t |-> "header", version |-> 3, o |-> o]

OPTION_NO_PATHS == 1

\* nameToCode: the code of a constructor is its position in this list,
\* counted from 0.
codeToConstructor ==
    <<"Array", "Empty", "Data", "List", "Param", "Value", "NotAllowed",
      "Text", "Ref", "OneOrMore", "Choice", "Group", "Attribute", "Element",
      "Define", "Grammar", "EName", "Interleave", "Name", "NameChoice",
      "NsName", "AnyName">>

\* nameToCode[name], 0 - 1 standing for undefined.
nameToCode(name) ==
    IF \E i \in 1..Len(codeToConstructor) : codeToConstructor[i] = name
    THEN (CHOOSE i \in 1..Len(codeToConstructor) :
              codeToConstructor[i] = name) - 1
    ELSE 0 - 1

RECURSIVE Escape(_)
\* text.replace(/(["\\])/g, "\\$1")
Escape(s) ==
    IF s = <<>> THEN <<>>
    ELSE (IF Head(s) \in {"\"", "\\"} THEN <<"\\", Head(s)>> ELSE <<Head(s)>>)
             \o Escape(Tail(s))

ConstructState(opening, close, first) ==
    [open |-> opening, close |-> close, first |-> first]

\* new DefaultConversionWalker(version, includePaths, verbose); thrown is the
\* message of the exception that ended the last call, "" when none did.
NewDefaultConversionWalker(version, includePaths, verbose) ==
    [includePaths |-> includePaths, verbose |-> verbose,
     inNameClass |-> FALSE, output |-> <<>>,
     constructState |-> <<ConstructState("", "", TRUE)>>,
     thrown |-> IF version # 3
                THEN "DefaultConversionWalker only supports version 3"
                ELSE ""]

Throw(w, msg) == [w EXCEPT !.thrown = msg]

reset(w) ==
    [w EXCEPT !.output = <<>>,
              !.constructState = <<ConstructState("", "", TRUE)>>,
              !.thrown = ""]

openConstruct(w, opening, close) ==
    IF w.thrown # "" THEN w
    ELSE [w EXCEPT
            !.constructState = <<ConstructState(opening, close, TRUE)>> \o @,
            !.output = Append(@, Raw(opening))]

closeConstruct_unchecked(w, close) ==
    IF w.thrown # "" \/ w.constructState = <<>> THEN w
    ELSE [w EXCEPT !.constructState = Tail(@),
                   !.output = Append(@, Raw(close))]

closeConstruct(w, close) ==
    IF w.thrown # "" THEN w
    ELSE IF w.constructState = <<>> THEN w
    ELSE IF close # Head(w.constructState).close
         THEN Throw([w EXCEPT !.constructState = Tail(@)],
                    "construct mismatch")
    ELSE [w EXCEPT !.constructState = Tail(@),
                   !.output = Append(@, Raw(close))]

newItem_separatorAlways(w) ==
    IF w.thrown # "" THEN w
    ELSE IF w.constructState = <<>>
         THEN Throw(w, "TypeError: Cannot read property 'first' of undefined")
    ELSE [w EXCEPT !.constructState[1].first = FALSE,
                   !.output = Append(@, Raw(","))]

newItem(w) ==
    IF w.thrown # "" THEN w
    ELSE IF w.constructState = <<>>
         THEN Throw(w, "TypeError: Cannot read property 'first' of undefined")
    ELSE IF Head(w.constructState).first
         THEN [w EXCEPT !.constructState[1].first = FALSE]
    ELSE [w EXCEPT !.output = Append(@, Raw(","))]

\* outputItem(item): item is a token, a number or a piece of raw text.
outputItem(w, item) ==
    LET w1 == newItem(w)
    IN  IF w1.thrown # "" THEN w1
        ELSE [w1 EXCEPT !.output = Append(@, item)]

\* outputAsString(thing): thing is a string; anything else has no replace
\* method.
outputAsString(w, thing) ==
    LET w1 == newItem(w)
    IN  IF w1.thrown # "" THEN w1
        ELSE IF thing = ObjectPrototype
             THEN Throw(w1, "TypeError: thing.replace is not a function")
        ELSE [w1 EXCEPT !.output = Append(@, Quoted(Escape(thing)))]

arrayStart(w) ==
    IF w.verbose THEN [t |-> "ctor", name |-> "Array"] ELSE Num(0)

openArray(w) == outputItem(openConstruct(w, "[", "]"), arrayStart(w))

\* el.local.charAt(0).toUpperCase() + el.local.slice(1)
Capitalized(local) ==
    CASE local = "define" -> "Define"
      [] local = "ref" -> "Ref"
      [] local = "element" -> "Element"
      [] local = "attribute" -> "Attribute"
      [] local = "name" -> "Name"
      [] local = "nsName" -> "NsName"
      [] local = "anyName" -> "AnyName"
      [] local = "except" -> "Except"
      [] local = "choice" -> "Choice"
      [] local = "group" -> "Group"
      [] local = "interleave" -> "Interleave"
      [] local = "oneOrMore" -> "OneOrMore"
      [] local = "value" -> "Value"
      [] local = "data" -> "Data"
      [] local = "list" -> "List"
      [] local = "text" -> "Text"
      [] local = "empty" -> "Empty"
      [] local = "notAllowed" -> "NotAllowed"
      [] OTHER -> local

\* The constructor of a node: its name when verbose, its code otherwise.
Ctor(w, name) ==
    IF w.verbose THEN [t |-> "ctor", name |-> name]
    ELSE Num(nameToCode(name))

\* The value of "o": this.includePaths ? 0 : OPTION_NO_PATHS
optionsOf(w) == IF w.includePaths THEN 0 ELSE OPTION_NO_PATHS

outputPath_never(w, el) == w

\* if (this.includePaths) { this.outputAsString(el.path); }
outputPath(w, el) ==
    IF w.includePaths THEN outputAsString(w, el.path) ELSE w

RECURSIVE walk(_, _)
RECURSIVE walkChildren(_, _, _, _)

\* ConversionWalker.walkChildren(el, startAt, endAt): the children from
\* startAt (counted from 0) up to endAt, excluded, are walked in order.
walkChildren(w, el, startAt, endAt) ==
    IF w.thrown # "" THEN w
    ELSE IF startAt > endAt THEN Throw(w, "invalid parameters passed")
    ELSE IF startAt >= endAt \/ startAt >= Len(el.children) THEN w
    ELSE walkChildren(walk(w, el.children[startAt + 1]), el, startAt + 1,
                      endAt)

\* this.walk(el.children[i]): a child that does not exist is undefined.
walkChild(w, el, i) ==
    IF w.thrown # "" THEN w
    ELSE IF i >= Len(el.children)
         THEN Throw(w, "TypeError: Cannot read property 'local' of undefined")
    ELSE walk(w, el.children[i + 1])

walkName_asString(w, name) == outputAsString(w, name)

\* The name of a ref or of a define: a number when it is made of digits.
walkName(w, name) ==
    IF IsDigits(name)
    THEN outputItem(w, Num(parseInt(name)))
    ELSE outputAsString(w, name)

walkValue_skipsEmptyLibrary(w, el) ==
    LET w1 == outputAsString(w, el.text)
        w2 == IF el.type # <<"t", "o", "k", "e", "n">>
              THEN outputAsString(w1, el.type) ELSE w1
        w3 == IF el.datatypeLibrary # <<>>
              THEN outputAsString(w2, el.datatypeLibrary) ELSE w2
    IN  IF el.ns # <<>> THEN outputAsString(w3, el.ns) ELSE w3

walkValue(w, el) ==
    LET token == <<"t", "o", "k", "e", "n">>
        w1 == outputAsString(w, el.text)
        w2 == outputAsString(w1, el.type)
        w3 == outputAsString(w2, el.datatypeLibrary)
    IN  IF el.type # token \/ el.datatypeLibrary # <<>> \/ el.ns # <<>>
        THEN IF el.datatypeLibrary # <<>> \/ el.ns # <<>>
             THEN IF el.ns # <<>> THEN outputAsString(w3, el.ns) ELSE w3
             ELSE w2
        ELSE w1

walkData(w, el) ==
    LET token == <<"t", "o", "k", "e", "n">>
        n == Len(el.children)
        hasParams == n # 0 /\ el.children[1].local = "param"
        hasExcept == n # 0 /\ el.children[n].local = "except"
        w1 == outputAsString(w, el.type)
        w2 == outputAsString(w1, el.datatypeLibrary)
        w3 == openArray(newItem(w2))
        w4 == IF hasParams
              THEN walkChildren(w3, el, 0, IF hasExcept THEN n - 1 ELSE n)
              ELSE w3
        w5 == closeConstruct(w4, "]")
    IN  IF el.type # token \/ el.datatypeLibrary # <<>> \/ hasParams
           \/ hasExcept
        THEN IF el.datatypeLibrary # <<>> \/ hasParams \/ hasExcept
             THEN IF hasParams \/ hasExcept
                  THEN IF hasExcept THEN walkChild(w5, el, n - 1) ELSE w5
                  ELSE w2
             ELSE w1
        ELSE w

\* The body of a node, after its constructor and its path.
walkBody(w, el) ==
    LET all == Len(el.children)
    IN  CASE el.local = "ref" -> walkName(w, el.name)
          [] el.local = "define" ->
               closeConstruct(
                   walkChildren(openArray(newItem(walkName(w, el.name))),
                                el, 0, all), "]")
          [] el.local = "value" -> walkValue(w, el)
          [] el.local = "data" -> walkData(w, el)
          [] el.local \in {"group", "interleave", "choice", "oneOrMore"} ->
               closeConstruct(
                   walkChildren(openArray(newItem(w)), el, 0, all), "]")
          [] el.local \in {"element", "attribute"} ->
               LET w1 == walkChild([w EXCEPT !.inNameClass = TRUE], el, 0)
                   w2 == IF w1.thrown # "" THEN w1
                         ELSE [w1 EXCEPT !.inNameClass = FALSE]
               IN  closeConstruct(
                       walkChildren(openArray(newItem(w2)), el, 1, all), "]")
          [] el.local = "name" ->
               outputAsString(outputAsString(w, el.ns), el.text)
          [] el.local = "nsName" ->
               walkChildren(outputAsString(w, el.ns), el, 0, all)
          [] OTHER -> walkChildren(w, el, 0, all)

\* DefaultConversionWalker.walk(el)
walk(w, el) ==
    LET all == Len(el.children)
    IN  IF w.thrown # "" THEN w
        ELSE CASE el.local = "start" -> walkChildren(w, el, 0, all)
          [] el.local = "param" ->
               outputAsString(outputAsString(w, el.name), el.text)
          [] el.local = "grammar" ->
               LET w1 == openConstruct(w, "{", "}")
                   w2 == outputItem(w1, Header(optionsOf(w)))
                   w3 == openConstruct(w2, "[", "]")
                   w4 == outputPath(outputItem(w3, Ctor(w, "Grammar")), el)
                   w5 == walkChild(w4, el, 0)
                   w6 == walkChildren(openArray(newItem(w5)), el, 1, all)
               IN  closeConstruct(
                       closeConstruct(closeConstruct(w6, "]"), "]"), "}")
          [] OTHER ->
               LET capitalized ==
                       IF w.inNameClass /\ Capitalized(el.local) = "Choice"
                       THEN "NameChoice"
                       ELSE Capitalized(el.local)
                   w1 == newItem(w)
                   w2 == openConstruct(w1, "[", "]")
                   w3 == outputPath(outputItem(w2, Ctor(w, capitalized)), el)
               IN  IF Capitalized(el.local) = "Except"
                   THEN walkChildren(w, el, 0, all)
                   ELSE IF nameToCode(capitalized) < 0
                        THEN Throw(w1, "can't find constructor")
                   ELSE closeConstruct(walkBody(w3, el), "]")

\* writeTreeToJSON(tree, formatVersion, includePaths, verbose): the walker
\* after the walk; its output is what the function returns.
writeTreeToJSON(tree, formatVersion, includePaths, verbose) ==
    walk(NewDefaultConversionWalker(formatVersion, includePaths, verbose),
         tree)

(***************************************************************************)
(* The renaming of the names of define and ref elements.                   *)
(***************************************************************************)
\* The name of the accessor of an object's prototype.
ProtoKey == <<"_", "_", "p", "r", "o", "t", "o", "_", "_">>

RECURSIVE NameGatherer_walk(_, _)
RECURSIVE NameGatherer_walkChildren(_, _, _)

NameGatherer_walkChildren(names, el, i) ==
    IF i > Len(el.children) THEN names
    ELSE NameGatherer_walkChildren(
             NameGatherer_walk(names, el.children[i]), el, i + 1)

\* NameGatherer.walk(el): names is an object without a prototype, a function
\* from the names seen to the number of times each was seen.
NameGatherer_walk(names, el) ==
    LET seen == NameGatherer_walkChildren(names, el, 1)
    IN  IF el.local \in {"define", "ref"}
        THEN IF el.name \in DOMAIN seen
             THEN [seen EXCEPT ![el.name] = @ + 1]
             ELSE [k \in DOMAIN seen \cup {el.name} |->
                       IF k = el.name THEN 1 ELSE seen[k]]
        ELSE seen

\* The names gathered from a tree.
GatheredNames(tree) == NameGatherer_walk([k \in {} |-> 0], tree)

\* The outcomes of sorted.sort((a, b) => b.freq - a.freq): the keys in an
\* order of decreasing frequency.
SortedKeys(names) ==
    LET n == Cardinality(DOMAIN names)
    IN  { s \in [1..n -> DOMAIN names] :
            /\ \A i, j \in 1..n : i # j => s[i] # s[j]
            /\ \A i, j \in 1..n : i < j => names[s[i]] >= names[s[j]] }

\* The object newNames after sorted.forEach(elem => newNames[elem.key] =
\* String(id++)): newNames is a plain object, and assigning a string to the
\* __proto__ of a plain object does nothing.
NewNames(sorted) ==
    [k \in {sorted[i] : i \in 1..Len(sorted)} \ {ProtoKey} |->
        String(CHOOSE i \in 1..Len(sorted) : sorted[i] = k)]

\* names[key] for a plain object names.
GetProperty(names, key) ==
    IF key \in DOMAIN names THEN names[key]
    ELSE IF key = ProtoKey THEN ObjectPrototype
    ELSE <<"undefined">>

RECURSIVE Renamer_walk(_, _)
\* Renamer.walk(el), the tree being modified in place: the tree after it.
Renamer_walk(names, el) ==
    [el EXCEPT
       !.name = IF el.local \in {"define", "ref"}
                THEN GetProperty(names, el.name) ELSE @,
       !.children = [i \in 1..Len(el.children) |->
                        Renamer_walk(names, el.children[i])]]

\* renameRefsDefines(tree): the tree after it, given the outcome of the sort.
renameRefsDefines(tree, sorted) ==
    Renamer_walk(NewNames(sorted), tree)

(***************************************************************************)
(* Schemas converted: simplified Relax NG grammars, a start and some       *)
(* defines of one element each.                                            *)
(***************************************************************************)
\* The names of defines: NCNames.
DefineNames == {<<"a">>, <<"b">>, ProtoKey}

Leaf(local) == ParsedElement(local, <<>>, <<>>, <<>>)

RefTo(name) == ParsedElement("ref", name, <<>>, <<>>)

GroupOf(children) == ParsedElement("group", <<>>, <<>>, children)

NameOf(text) == ParsedElement("name", <<>>, text, <<>>)

\* <data type="token"> with a parameter and an exception
DataElement ==
    ParsedElement("data", <<>>, <<>>,
        << ParsedElement("param", <<"p">>, <<"1">>, <<>>),
           ParsedElement("except", <<>>, <<>>,
               << ParsedElement("value", <<>>, <<"v", "\"">>, <<>>) >>) >>)

\* An attribute whose name class is a choice of two names.
AttributeElement ==
    ParsedElement("attribute", <<>>, <<>>,
        << ParsedElement("choice", <<>>, <<>>,
               <<NameOf(<<"x">>), NameOf(<<"y">>)>>),
           Leaf("text") >>)

\* The contents of the element of a define, given the names defined.
Contents(names) ==
    {Leaf("empty")}
        \cup {RefTo(n) : n \in names}
        \cup {GroupOf(<<RefTo(n), RefTo(n)>>) : n \in names}

DefineOf(name, content) ==
    ParsedElement("define", name, <<>>,
        << ParsedElement("element", <<>>, <<>>,
               <<NameOf(<<"e">>), content>>) >>)

GrammarOf(names, contents) ==
    ParsedElement("grammar", <<>>, <<>>,
        << ParsedElement("start", <<>>, <<>>, <<RefTo(names[1])>>) >>
            \o [i \in 1..Len(names) |-> DefineOf(names[i], contents[i])])

\* The grammars whose defines have the names given, in that order; start
\* refers to the first.
GrammarsOf(names) ==
    { GrammarOf(names, contents) :
          contents \in [1..Len(names) ->
                           Contents({names[i] : i \in 1..Len(names)})] }

\* Grammars of one define, whose element holds text, data or an attribute.
OtherGrammars ==
    { GrammarOf(<<n>>, <<c>>) :
          n \in DefineNames,
          c \in {Leaf("text"), DataElement, AttributeElement} }

Grammars ==
    OtherGrammars \cup
    UNION { GrammarsOf(names) :
              names \in { s \in UNION {[1..n -> DefineNames] :
                                           n \in 1..MaxDefines} :
                            \A i, j \in DOMAIN s : i # j => s[i] # s[j] } }

RECURSIVE NamedElements(_)
\* The define and ref elements of a tree, each with its position in the tree.
NamedElements(el) ==
    (IF el.local \in {"define", "ref"} THEN {<<>>} ELSE {})
        \cup UNION { { <<i>> \o p : p \in NamedElements(el.children[i]) } :
                       i \in 1..Len(el.children) }

RECURSIVE ElementAt(_, _)
ElementAt(el, p) ==
    IF p = <<>> THEN el ELSE ElementAt(el.children[Head(p)], Tail(p))

(***************************************************************************)
(* A schema is renamed, or not, and written as JSON.                       *)
(***************************************************************************)
\* Nothing is being validated.
NoValidation ==
    /\ pat = Empty /\ heap = <<>> /\ root = 0 /\ twin = 0
    /\ memo = <<>> /\ solo = 0 /\ doc = <<>> /\ pos = 0 /\ errs = <<>>
    /\ open = <<>>
    /\ last = Last("none", NoEvent, NoRes, {}, <<>>, "none", NoRes, 0)

InitJSON ==
    /\ \E g \in Grammars : schema = g /\ orig = g
    /\ order = <<>>
    /\ writer = NoWalker
    /\ NoValidation /\ NoCommand /\ called = NoCall

\* renameRefsDefines(tree), once.
RenameRefsDefines ==
    /\ proc = <<>>
    /\ schema = orig /\ order = <<>>
    /\ \E s \in SortedKeys(GatheredNames(schema)) :
          /\ order' = s
          /\ schema' = renameRefsDefines(schema, s)
    /\ writer' = NoWalker
    /\ UNCHANGED <<orig, args, proc, called, validationVars>>

\* writeTreeToJSON(schema, 3, includePaths, verbose)
WriteTreeToJSON ==
    /\ proc = <<>>
    /\ schema # <<>>
    /\ \E includePaths \in BOOLEAN, verbose \in BOOLEAN :
          writer' = writeTreeToJSON(schema, 3, includePaths, verbose)
    /\ UNCHANGED <<schema, orig, order, args, proc, called, validationVars>>

NextJSON == RenameRefsDefines \/ WriteTreeToJSON

SpecJSON == InitJSON /\ [][NextJSON]_vars

(***************************************************************************)
(* One DefaultConversionWalker whose methods are called in any order, on   *)
(* any tree of elements: the walker is an object its holder may use for    *)
(* several walks.  called holds the last call, the walker as it was before *)
(* the call and the number of calls made since the walker was blank.       *)
(***************************************************************************)
\* How many calls are made on the walker between two resets.
MaxCalls == 2

TokenType == <<"t", "o", "k", "e", "n">>

\* <value type=... datatypeLibrary=... ns=...>text</value>
ValueElement(text, type, datatypeLibrary, ns) ==
    [ParsedElement("value", <<>>, text, <<>>) EXCEPT
        !.type = type, !.datatypeLibrary = datatypeLibrary, !.ns = ns]

\* The values: every combination of a type, a library and a namespace
\* that are the default or not.
ValueElements ==
    { ValueElement(<<"v", "\\">>, type, datatypeLibrary, ns) :
          type \in {TokenType, <<"s">>},
          datatypeLibrary \in {<<>>, <<"d">>},
          ns \in {<<>>, <<"n", "\"">>} }

\* <data type=... datatypeLibrary=...>children</data>
DataOf(type, datatypeLibrary, children) ==
    [ParsedElement("data", <<>>, <<>>, children) EXCEPT
        !.type = type, !.datatypeLibrary = datatypeLibrary]

DataElements ==
    { DataOf(TokenType, <<>>, <<>>),
      DataOf(<<"s">>, <<>>, <<>>),
      DataOf(TokenType, <<"d">>, <<>>),
      DataOf(TokenType, <<>>, <<DataElement.children[1]>>),
      DataOf(TokenType, <<>>, <<DataElement.children[2]>>),
      DataElement }

ElementOf(nameClass, content) ==
    ParsedElement("element", <<>>, <<>>, <<nameClass, content>>)

\* Patterns of a simplified schema, and a schema.
Fragments ==
    { ElementOf(NameOf(<<"e">>), Leaf("text")),
      AttributeElement,
      ParsedElement("choice", <<>>, <<>>, <<RefTo(<<"a">>), RefTo(<<"b">>)>>),
      RefTo(<<"1">>),
      GrammarOf(<< <<"a">> >>, <<DataElement>>) }

\* Trees that no simplified schema holds, which the type Element allows: an
\* element without children, a name class that is no name class, and the
\* ref that the renaming of __proto__ leaves.
Malformed ==
    { ParsedElement("element", <<>>, <<>>, <<>>),
      ElementOf(Leaf("foo"), Leaf("text")),
      RefTo(ObjectPrototype) }

WalkerTrees == ValueElements \cup DataElements \cup Fragments \cup Malformed

\* A call of a method: the exception of the call before, if any, was caught.
Calling(w) == [w EXCEPT !.thrown = ""]

Call(op, arg) ==
    [op |-> op, arg |-> arg, before |-> writer, n |-> called.n + 1]

InitWalker ==
    /\ \E includePaths \in BOOLEAN, verbose \in BOOLEAN :
          writer = NewDefaultConversionWalker(3, includePaths, verbose)
    /\ called = NoCall
    /\ schema = <<>> /\ orig = <<>> /\ order = <<>>
    /\ NoValidation /\ NoCommand

\* The variables that the calls on the walker leave alone.
WalkerFrame == <<schema, orig, order, args, proc, validationVars>>

Reset ==
    /\ writer' = reset(writer)
    /\ called' = [op |-> "reset", n |-> 0]
    /\ UNCHANGED WalkerFrame

Walk ==
    /\ called.n < MaxCalls
    /\ \E el \in WalkerTrees :
          /\ writer' = walk(Calling(writer), el)
          /\ called' = Call("walk", el)
    /\ UNCHANGED WalkerFrame

OpenConstruct ==
    /\ called.n < MaxCalls
    /\ \E b \in {<<"[", "]">>, <<"{", "}">>} :
          /\ writer' = openConstruct(Calling(writer), b[1], b[2])
          /\ called' = Call("openConstruct", b)
    /\ UNCHANGED WalkerFrame

CloseConstruct ==
    /\ called.n < MaxCalls
    /\ \E close \in {"]", "}"} :
          /\ writer' = closeConstruct(Calling(writer), close)
          /\ called' = Call("closeConstruct", close)
    /\ UNCHANGED WalkerFrame

NewItem ==
    /\ called.n < MaxCalls
    /\ writer' = newItem(Calling(writer))
    /\ called' = Call("newItem", <<>>)
    /\ UNCHANGED WalkerFrame

OutputItem ==
    /\ called.n < MaxCalls
    /\ writer' = outputItem(Calling(writer), Num(7))
    /\ called' = Call("outputItem", Num(7))
    /\ UNCHANGED WalkerFrame

OutputAsString ==
    /\ called.n < MaxCalls
    /\ writer' = outputAsString(Calling(writer), <<"s">>)
    /\ called' = Call("outputAsString", <<"s">>)
    /\ UNCHANGED WalkerFrame

OpenArray ==
    /\ called.n < MaxCalls
    /\ writer' = openArray(Calling(writer))
    /\ called' = Call("openArray", <<>>)
    /\ UNCHANGED WalkerFrame

NextWalker ==
    \/ Reset \/ Walk \/ OpenConstruct \/ CloseConstruct
    \/ NewItem \/ OutputItem \/ OutputAsString \/ OpenArray

SpecWalker == InitWalker /\ [][NextWalker]_vars

(***************************************************************************)
(* The translation of the regular expressions of XML Schema                *)
(* (lib/salve/datatypes/regexp, which the tests of regexp_test.js          *)
(* exercise).  The translator is not among the sources at hand: it is      *)
(* modelled from the rules of the specification (section 4.3) and from the *)
(* conversions that the tests expect.  A regular expression is given as it *)
(* is parsed: a sequence of literal text, groups, multi-character escapes, *)
(* category escapes and character classes.  The escapes \i, \I, \c, \C, \w *)
(* and \W, whose expansions neither the specification nor the tests give,  *)
(* are left out.                                                           *)
(***************************************************************************)
\* How many members a generated character class has.
MaxMembers == 2

Lit(s) == [k |-> "lit", s |-> s]

GroupRE(body) == [k |-> "group", body |-> body]

MultiCharEsc(e) == [k |-> "esc", e |-> e]

Category(c) == [k |-> "cat", c |-> c]

\* [members], [^members], and the same minus the class sub (if any).
CharClass(neg, members, sub) ==
    [k |-> "class", neg |-> neg, members |-> members, sub |-> sub]

RECURSIVE Concat(_)
Concat(ss) == IF ss = <<>> THEN <<>> ELSE Head(ss) \o Concat(Tail(ss))

RECURSIVE Join(_)
\* The alternatives given, separated by "|".
Join(ss) ==
    IF Len(ss) <= 1 THEN Concat(ss)
    ELSE Head(ss) \o <<"|">> \o Join(Tail(ss))

RECURSIVE SourceOf(_)
\* The text of a regular expression of XML Schema.
SourceOf(a) ==
    CASE a.k = "lit" -> a.s
      [] a.k = "group" ->
           <<"(">> \o Concat([i \in 1..Len(a.body) |-> SourceOf(a.body[i])])
               \o <<")">>
      [] a.k = "esc" -> <<"\\", a.e>>
      [] a.k = "cat" -> <<"\\", "p", "{">> \o a.c \o <<"}">>
      [] a.k = "class" ->
           <<"[">> \o (IF a.neg THEN <<"^">> ELSE <<>>)
               \o Concat([i \in 1..Len(a.members) |-> SourceOf(a.members[i])])
               \o (IF a.sub # <<>> THEN <<"-">> \o SourceOf(a.sub[1])
                   ELSE <<>>)
               \o <<"]">>

Source(re) == Concat([i \in 1..Len(re) |-> SourceOf(re[i])])

\* \s: [ \t\n\r]; \d: \p{Nd}
Whitespace == <<" ", "\\", "t", "\\", "n", "\\", "r">>

DecimalDigit == <<"\\", "p", "{", "N", "d", "}">>

NegativeEscape(m) == m.k = "esc" /\ m.e \in {"S", "D"}

\* The characters of \s and \S, of \d and \D: what the positive escape
\* stands for in a class.
PositiveOf(e) == IF e \in {"s", "S"} THEN Whitespace ELSE DecimalDigit

\* A member of a class that is not a negative escape, written in a class.
InClass(m) ==
    CASE m.k = "lit" -> m.s
      [] m.k = "esc" -> PositiveOf(m.e)
      [] m.k = "cat" -> <<"\\", "p", "{">> \o m.c \o <<"}">>

\* A class without its subtraction.
TranslateMembers(c) ==
    LET others == SelectSeq(c.members, LAMBDA m : ~NegativeEscape(m))
        negatives == SelectSeq(c.members, NegativeEscape)
        positive == Concat([i \in 1..Len(others) |-> InClass(others[i])])
    IN  IF negatives = <<>>
        THEN <<"[">> \o (IF c.neg THEN <<"^">> ELSE <<>>) \o positive
                 \o <<"]">>
        ELSE IF ~c.neg
             THEN <<"(", "?", ":">>
                      \o Join([i \in 1..Len(negatives) |->
                                  <<"[", "^">> \o PositiveOf(negatives[i].e)
                                      \o <<"]">>]
                              \o (IF others # <<>>
                                  THEN << <<"[">> \o positive \o <<"]">> >>
                                  ELSE <<>>))
                      \o <<")">>
        ELSE <<"(", "?", ":", "(", "?", "=", "[">>
                 \o Concat([i \in 1..Len(negatives) |->
                               PositiveOf(negatives[i].e)])
                 \o <<"]", ")", "[", "^">> \o positive \o <<"]", ")">>

RECURSIVE TranslateClass(_)
\* [A-[B]] becomes (?:(?!B)A)
TranslateClass(c) ==
    IF c.sub = <<>> THEN TranslateMembers(c)
    ELSE <<"(", "?", ":", "(", "?", "!">> \o TranslateClass(c.sub[1])
             \o <<")">> \o TranslateMembers(c) \o <<")">>

RECURSIVE Translate(_)
Translate(a) ==
    CASE a.k = "lit" -> a.s
      [] a.k = "group" ->
           <<"(", "?", ":">>
               \o Concat([i \in 1..Len(a.body) |-> Translate(a.body[i])])
               \o <<")">>
      [] a.k = "esc" ->
           IF a.e = "d" THEN DecimalDigit
           ELSE <<"[">> \o (IF NegativeEscape(a) THEN <<"^">> ELSE <<>>)
                    \o PositiveOf(a.e) \o <<"]">>
      [] a.k = "cat" -> <<"\\", "p", "{">> \o a.c \o <<"}">>
      [] a.k = "class" -> TranslateClass(a)

RECURSIVE UsesCategories_escapeOnly(_)
UsesCategories_escapeOnly(a) ==
    CASE a.k = "group" ->
           \E i \in 1..Len(a.body) : UsesCategories_escapeOnly(a.body[i])
      [] a.k = "cat" -> TRUE
      [] a.k = "class" ->
           \/ \E i \in 1..Len(a.members) :
                 UsesCategories_escapeOnly(a.members[i])
           \/ a.sub # <<>> /\ UsesCategories_escapeOnly(a.sub[1])
      [] OTHER -> FALSE

RECURSIVE UsesCategories(_)
\* Whether the expression uses a Unicode category: a category escape, or
\* \d or \D, which stand for the category Nd.
UsesCategories(a) ==
    CASE a.k = "group" ->
           \E i \in 1..Len(a.body) : UsesCategories(a.body[i])
      [] a.k = "esc" -> a.e \in {"d", "D"}
      [] a.k = "cat" -> TRUE
      [] a.k = "class" ->
           \/ \E i \in 1..Len(a.members) : UsesCategories(a.members[i])
           \/ a.sub # <<>> /\ UsesCategories(a.sub[1])
      [] OTHER -> FALSE

\* regexp.parse(re): the string it makes ("string" output) and the
\* constructor of the matcher it compiles.
parse(re) ==
    [string |-> <<"^">> \o Concat([i \in 1..Len(re) |-> Translate(re[i])])
                    \o <<"$">>,
     constructor |-> IF \E i \in 1..Len(re) : UsesCategories(re[i])
                     THEN "XRegExp" ELSE "RegExp"]

\* The conversions that the tests expect: the regular expression as it is
\* parsed, its text, the string expected and the class of the matcher.
conversionTests ==
    <<
      [re |->
            <<>>,
        source |->
            <<>>,
        expected |->
            <<"^", "$">>,
        constructor |-> "RegExp"],
      [re |->
            <<Lit(<<"a", "b", "c">>)>>,
        source |->
            <<"a", "b", "c">>,
        expected |->
            <<"^", "a", "b", "c", "$">>,
        constructor |-> "RegExp"],
      [re |->
            <<Lit(<<"a", "b", "c", "|", "d", "e", "f">>)>>,
        source |->
            <<"a", "b", "c", "|", "d", "e", "f">>,
        expected |->
            <<"^", "a", "b", "c", "|", "d", "e", "f", "$">>,
        constructor |-> "RegExp"],
      [re |->
            <<Lit(<<"a", "b", "c", "+">>)>>,
        source |->
            <<"a", "b", "c", "+">>,
        expected |->
            <<"^", "a", "b", "c", "+", "$">>,
        constructor |-> "RegExp"],
      [re |->
            <<Lit(<<"a", "b", "c", "?">>)>>,
        source |->
            <<"a", "b", "c", "?">>,
        expected |->
            <<"^", "a", "b", "c", "?", "$">>,
        constructor |-> "RegExp"],
      [re |->
            <<Lit(<<"a", "b", "c", "*">>)>>,
        source |->
            <<"a", "b", "c", "*">>,
        expected |->
            <<"^", "a", "b", "c", "*", "$">>,
        constructor |-> "RegExp"],
      [re |->
            <<Lit(<<"a", "b", "{", "1", "}">>)>>,
        source |->
            <<"a", "b", "{", "1", "}">>,
        expected |->
            <<"^", "a", "b", "{", "1", "}", "$">>,
        constructor |-> "RegExp"],
      [re |->
            <<Lit(<<"a", "b", "{", "1", ",", "2", "}">>)>>,
        source |->
            <<"a", "b", "{", "1", ",", "2", "}">>,
        expected |->
            <<"^", "a", "b", "{", "1", ",", "2", "}", "$">>,
        constructor |-> "RegExp"],
      [re |->
            <<Lit(<<"a", "b", "{", "1", ",", "}">>)>>,
        source |->
            <<"a", "b", "{", "1", ",", "}">>,
        expected |->
            <<"^", "a", "b", "{", "1", ",", "}", "$">>,
        constructor |-> "RegExp"],
      [re |->
            <<Lit(<<"a", "b">>), GroupRE(<<Lit(<<"1", "2", "3">>)>>),
                Lit(<<"c", "d">>)>>,
        source |->
            <<"a", "b", "(", "1", "2", "3", ")", "c", "d">>,
        expected |->
            <<"^", "a", "b", "(", "?", ":", "1", "2", "3", ")", "c", "d",
                "$">>,
        constructor |-> "RegExp"],
      [re |->
            <<Lit(<<"a", "b", ".">>)>>,
        source |->
            <<"a", "b", ".">>,
        expected |->
            <<"^", "a", "b", ".", "$">>,
        constructor |-> "RegExp"],
      [re |->
            <<Lit(<<"a", "b">>), MultiCharEsc("s"), Lit(<<"c", "d">>)>>,
        source |->
            <<"a", "b", "\\", "s", "c", "d">>,
        expected |->
            <<"^", "a", "b", "[", " ", "\\", "t", "\\", "n", "\\", "r",
                "]", "c", "d", "$">>,
        constructor |-> "RegExp"],
      [re |->
            <<Lit(<<"a", "b", "c", "d">>), Category(<<"L", "m">>),
                Lit(<<"e", "f">>)>>,
        source |->
            <<"a", "b", "c", "d", "\\", "p", "{", "L", "m", "}", "e", "f">>,
        expected |->
            <<"^", "a", "b", "c", "d", "\\", "p", "{", "L", "m", "}", "e",
                "f", "$">>,
        constructor |-> "XRegExp"],
      [re |->
            <<Lit(<<"a", "b">>), CharClass(FALSE, <<Lit(<<"A", "-",
                "Z">>)>>, <<>>), Lit(<<"c", "d">>)>>,
        source |->
            <<"a", "b", "[", "A", "-", "Z", "]", "c", "d">>,
        expected |->
            <<"^", "a", "b", "[", "A", "-", "Z", "]", "c", "d", "$">>,
        constructor |-> "RegExp"],
      [re |->
            <<Lit(<<"a", "b">>), CharClass(FALSE, <<Lit(<<"a">>),
                MultiCharEsc("s"), Lit(<<"q">>)>>, <<>>), Lit(<<"c",
                "d">>)>>,
        source |->
            <<"a", "b", "[", "a", "\\", "s", "q", "]", "c", "d">>,
        expected |->
            <<"^", "a", "b", "[", "a", " ", "\\", "t", "\\", "n", "\\",
                "r", "q", "]", "c", "d", "$">>,
        constructor |-> "RegExp"],
      [re |->
            <<Lit(<<"a", "b">>), CharClass(FALSE, <<Lit(<<"a">>),
                MultiCharEsc("S"), MultiCharEsc("D"), Lit(<<"q">>)>>, <<>>),
                Lit(<<"c", "d">>)>>,
        source |->
            <<"a", "b", "[", "a", "\\", "S", "\\", "D", "q", "]", "c",
                "d">>,
        expected |->
            <<"^", "a", "b", "(", "?", ":", "[", "^", " ", "\\", "t",
                "\\", "n", "\\", "r", "]", "|", "[", "^", "\\", "p", "{",
                "N", "d", "}", "]", "|", "[", "a", "q", "]", ")", "c", "d",
                "$">>,
        constructor |-> "XRegExp"],
      [re |->
            <<Lit(<<"a", "b">>), CharClass(TRUE, <<Lit(<<"a">>),
                MultiCharEsc("s"), MultiCharEsc("d"), Lit(<<"q">>)>>, <<>>),
                Lit(<<"c", "d">>)>>,
        source |->
            <<"a", "b", "[", "^", "a", "\\", "s", "\\", "d", "q", "]", "c",
                "d">>,
        expected |->
            <<"^", "a", "b", "[", "^", "a", " ", "\\", "t", "\\", "n",
                "\\", "r", "\\", "p", "{", "N", "d", "}", "q", "]", "c",
                "d", "$">>,
        constructor |-> "XRegExp"],
      [re |->
            <<Lit(<<"a", "b">>), CharClass(TRUE, <<Lit(<<"a">>),
                MultiCharEsc("S"), Lit(<<"q">>)>>, <<>>), Lit(<<"c",
                "d">>)>>,
        source |->
            <<"a", "b", "[", "^", "a", "\\", "S", "q", "]", "c", "d">>,
        expected |->
            <<"^", "a", "b", "(", "?", ":", "(", "?", "=", "[", " ",
                "\\", "t", "\\", "n", "\\", "r", "]", ")", "[", "^", "a",
                "q", "]", ")", "c", "d", "$">>,
        constructor |-> "RegExp"],
      [re |->
            <<Lit(<<"a", "b">>), CharClass(TRUE, <<Lit(<<"a">>),
                MultiCharEsc("S"), MultiCharEsc("D"), Lit(<<"q">>)>>, <<>>),
                Lit(<<"c", "d">>)>>,
        source |->
            <<"a", "b", "[", "^", "a", "\\", "S", "\\", "D", "q", "]", "c",
                "d">>,
        expected |->
            <<"^", "a", "b", "(", "?", ":", "(", "?", "=", "[", " ",
                "\\", "t", "\\", "n", "\\", "r", "\\", "p", "{", "N", "d",
                "}", "]", ")", "[", "^", "a", "q", "]", ")", "c", "d",
                "$">>,
        constructor |-> "XRegExp"],
      [re |->
            <<Lit(<<"a", "b">>), CharClass(FALSE, <<Lit(<<"a", "b", "c",
                "d">>)>>, <<CharClass(FALSE, <<Lit(<<"b", "c">>)>>,
                <<>>)>>), Lit(<<"c", "d">>)>>,
        source |->
            <<"a", "b", "[", "a", "b", "c", "d", "-", "[", "b", "c", "]",
                "]", "c", "d">>,
        expected |->
            <<"^", "a", "b", "(", "?", ":", "(", "?", "!", "[", "b", "c",
                "]", ")", "[", "a", "b", "c", "d", "]", ")", "c", "d",
                "$">>,
        constructor |-> "RegExp"],
      [re |->
            <<Lit(<<"a", "b">>), CharClass(FALSE, <<Lit(<<"a", "b", "c",
                "d">>)>>, <<CharClass(FALSE, <<Lit(<<"b", "c">>)>>,
                <<CharClass(FALSE, <<Lit(<<"c">>)>>, <<>>)>>)>>), Lit(<<"c",
                "d">>)>>,
        source |->
            <<"a", "b", "[", "a", "b", "c", "d", "-", "[", "b", "c", "-",
                "[", "c", "]", "]", "]", "c", "d">>,
        expected |->
            <<"^", "a", "b", "(", "?", ":", "(", "?", "!", "(", "?", ":",
                "(", "?", "!", "[", "c", "]", ")", "[", "b", "c", "]", ")",
                ")", "[", "a", "b", "c", "d", "]", ")", "c", "d", "$">>,
        constructor |-> "RegExp"],
      [re |->
            <<GroupRE(<<Category(<<"L">>), Lit(<<"|">>), Category(<<"N">>),
                Lit(<<"|">>), Category(<<"P">>), Lit(<<"|">>),
                Category(<<"S">>)>>), Lit(<<"+">>)>>,
        source |->
            <<"(", "\\", "p", "{", "L", "}", "|", "\\", "p", "{", "N", "}",
                "|", "\\", "p", "{", "P", "}", "|", "\\", "p", "{", "S",
                "}", ")", "+">>,
        expected |->
            <<"^", "(", "?", ":", "\\", "p", "{", "L", "}", "|", "\\", "p",
                "{", "N", "}", "|", "\\", "p", "{", "P", "}", "|", "\\",
                "p", "{", "S", "}", ")", "+", "$">>,
        constructor |-> "XRegExp"],
      [re |->
            <<Lit(<<"a", "b">>), CharClass(FALSE, <<Lit(<<"a", "-",
                "d">>)>>, <<CharClass(FALSE, <<Lit(<<"b", "c">>)>>,
                <<CharClass(FALSE, <<Lit(<<"c">>)>>, <<>>)>>)>>), Lit(<<"c",
                "d">>)>>,
        source |->
            <<"a", "b", "[", "a", "-", "d", "-", "[", "b", "c", "-", "[",
                "c", "]", "]", "]", "c", "d">>,
        expected |->
            <<"^", "a", "b", "(", "?", ":", "(", "?", "!", "(", "?", ":",
                "(", "?", "!", "[", "c", "]", ")", "[", "b", "c", "]", ")",
                ")", "[", "a", "-", "d", "]", ")", "c", "d", "$">>,
        constructor |-> "RegExp"]
    >>

\* The members of the classes generated.
Members ==
    { Lit(<<"a">>), MultiCharEsc("s"), MultiCharEsc("S"), MultiCharEsc("d"),
      MultiCharEsc("D"), Category(<<"L">>) }

Subtracted ==
    { <<>>,
      <<CharClass(FALSE, <<Lit(<<"b">>)>>, <<>>)>>,
      <<CharClass(TRUE, <<MultiCharEsc("D")>>, <<>>)>> }

CharClasses ==
    { CharClass(neg, members, sub) :
          neg \in BOOLEAN,
          members \in UNION {[1..n -> Members] : n \in 1..MaxMembers},
          sub \in Subtracted }

\* The regular expressions translated: those of the tests, and classes,
\* escapes and groups of every kind.
Regexps ==
    {conversionTests[i].re : i \in 1..Len(conversionTests)}
        \cup {<<Lit(<<"x">>), c>> : c \in CharClasses}
        \cup {<<m>> : m \in Members}
        \cup {<<GroupRE(<<m>>), Lit(<<"+">>)>> : m \in Members}

InitRegexp == NoValidation /\ NoConversion

\* regexp.parse(re), once.
Parse ==
    /\ called = NoCall
    /\ \E re \in Regexps :
          called' = [op |-> "parse", arg |-> re, result |-> parse(re),
                     n |-> 1]
    /\ UNCHANGED <<schema, orig, order, writer, args, proc, validationVars>>

NextRegexp == Parse

SpecRegexp == InitRegexp /\ [][NextRegexp]_vars

(***************************************************************************)
(* salve-convert, the conversion command.                                  *)
(*                                                                         *)
(* The process runs its main script, then the callbacks of the child       *)
(* processes it spawned, one at a time.  proc holds its state: pc (what it *)
(* waits for), terminating, err (the output of jing gathered so far, a     *)
(* sequence of pieces of text), the simplification step being run, the     *)
(* exit code, the output file, and ran, the history of what was spawned    *)
(* and called.                                                             *)
(***************************************************************************)
\* The values of --allow-incomplete-types: not given (null), or any string.
NotGiven == [given |-> FALSE]

Given(value) == [given |-> TRUE, value |-> value]

AllowIncompleteTypes == {NotGiven, Given(""), Given("quiet"), Given("yes")}

\* verbose, timing and keep_temp, which change no decision of the command.
QuietFlags == {<<FALSE, FALSE, FALSE>>, <<TRUE, FALSE, FALSE>>,
               <<FALSE, TRUE, TRUE>>}

\* parser.parseArgs(): the command lines.
ParsedArgs ==
    { [no_optimize_ids |-> noi, include_paths |-> ip, format_version |-> fv,
       simplify_only |-> so, simplified_input |-> si, verbose |-> q[1],
       timing |-> q[2], keep_temp |-> q[3], verbose_format |-> vf,
       allow_incomplete_types |-> ait] :
        noi \in BOOLEAN, ip \in BOOLEAN, fv \in {2, 3, 4}, so \in BOOLEAN,
        si \in BOOLEAN, q \in QuietFlags, vf \in BOOLEAN,
        ait \in AllowIncompleteTypes }

\* !args.allow_incomplete_types: null and the empty string are falsy.
Falsy(value) == ~value.given \/ value.value = ""

\* The schemas given to the command.
CommandSchemas ==
    { GrammarOf(<<(<<"a">>)>>, <<Leaf("empty")>>),
      GrammarOf(<< <<"a">>, <<"b">> >>,
                << RefTo(<<"b">>),
                   GroupOf(<<RefTo(<<"b">>), RefTo(<<"b">>)>>) >>),
      GrammarOf(<<ProtoKey>>, <<Leaf("empty")>>) }

\* Paths: the input, and the output of a run of a simplification step.
InputPath == [step |-> 0, repeat_no |-> 0]

OutPath(stepNo, repeat_no) == [step |-> stepNo + 1, repeat_no |-> repeat_no]

\* The pieces of the output of jing: the message of a schema error, a
\* message about /dev/null, "fatal: Premature end of file." and what follows.
JingOutput == {"error", "/dev/null", "fatal: Premature end of file."}

RECURSIVE BeforeDevNull(_)
\* err.replace(/\/dev\/null(.|[\r\n])*/, "")
BeforeDevNull(e) ==
    IF e = <<>> \/ Head(e) = "/dev/null" THEN <<>>
    ELSE <<Head(e)>> \o BeforeDevNull(Tail(e))

RECURSIVE WithoutPremature(_)
\* err.replace(/fatal: Premature end of file\.\s*/, ""): the first one.
WithoutPremature(e) ==
    IF e = <<>> THEN <<>>
    ELSE IF Head(e) = "fatal: Premature end of file." THEN Tail(e)
    ELSE <<Head(e)>> \o WithoutPremature(Tail(e))

\* What DatatypeProcessor.walk does with the schema: it returns, having
\* gathered warnings or not, or it throws.
TypeCheckOutcomes ==
    { [thrown |-> "", warnings |-> 0], [thrown |-> "", warnings |-> 1],
      [thrown |-> "ValueValidationError", warnings |-> 0],
      [thrown |-> "ParameterParsingError", warnings |-> 0] }

Ran(p, what) == [p EXCEPT !.ran = Append(@, what)]

\* process.exit(code)
Exit(p, code) == [p EXCEPT !.pc = "exited", !.exitCode = code]

\* A faulty handler: terminating is not looked at.
uncaughtException_again(p, a, ex) ==
    LET p1 == Ran([p EXCEPT !.terminating = TRUE],
                  [e |-> "uncaughtException", ex |-> ex])
    IN  IF ex = "Fatal" THEN Exit(Ran(p1, [e |-> "stderr"]), 1)
        ELSE Exit([p1 EXCEPT !.cleanedUp = @ \/ ~a.keep_temp], 7)

\* The uncaughtException handler, for an exception of the class given; ran
\* keeps the exceptions it acted on.  An exception the handler throws itself
\* ends the process with code 7.
uncaughtException(p, a, ex) ==
    LET p1 == Ran([p EXCEPT !.terminating = TRUE],
                  [e |-> "uncaughtException", ex |-> ex])
    IN  IF p.terminating THEN p
        ELSE IF ex = "Fatal" THEN Exit(Ran(p1, [e |-> "stderr"]), 1)
        ELSE Exit([p1 EXCEPT !.cleanedUp = @ \/ ~a.keep_temp], 7)

\* The result of a part of the command: the process, and the tree, the
\* order of the names and the walker it leaves.
Outcome(p, tree, names, w) ==
    [proc |-> p, schema |-> tree, order |-> names, writer |-> w]

SimplifyOnly_never(a) == FALSE

\* if (args.simplify_only)
SimplifyOnly(a) == a.simplify_only

Renaming_always(a) == TRUE

\* if (!args.no_optimize_ids)
Renaming(a) == ~a.no_optimize_ids

\* convert(simplifiedPath): tree is the parsed file, tc what the datatype
\* check does and names the outcome of the sort of the names.
convert(p, a, tree, simplifiedPath, tc, names) ==
    LET p1 == Ran(p, [e |-> "convert", path |-> simplifiedPath])
        renaming == Renaming(a)
        p2 == IF renaming THEN Ran(p1, [e |-> "rename"]) ELSE p1
        renamed == IF renaming THEN Renamer_walk(NewNames(names), tree)
                   ELSE tree
        used == IF renaming THEN names ELSE <<>>
        p3 == Ran(p2, [e |-> "typeCheck", warnings |-> tc.warnings])
        warn == tc.warnings # 0 /\ a.allow_incomplete_types # Given("quiet")
        p4 == IF warn THEN Ran(p3, [e |-> "warning"]) ELSE p3
        w == walk(NewDefaultConversionWalker(a.format_version,
                                             a.include_paths,
                                             a.verbose_format), renamed)
        p5 == Ran(p4, [e |-> "walk"])
        p6 == Ran([p5 EXCEPT !.outputFile = [by |-> "writeFileSync",
                                             data |-> w.output]],
                  [e |-> "writeFileSync"])
    IN  IF SimplifyOnly(a)
        THEN Outcome([Ran(p1, [e |-> "xmllint", path |-> simplifiedPath])
                        EXCEPT !.pc = "xmllint"], tree, <<>>, NoWalker)
        ELSE IF a.format_version # 3
             THEN Outcome(uncaughtException(p1, a, "Error"), tree, <<>>,
                          NoWalker)
        ELSE IF tc.thrown # ""
             THEN Outcome(uncaughtException(p3, a, "Fatal"), renamed, used,
                          NoWalker)
        ELSE IF warn /\ Falsy(a.allow_incomplete_types)
             THEN Outcome(uncaughtException(p4, a, "Fatal"), renamed, used,
                          NoWalker)
        ELSE IF w.thrown # ""
             THEN Outcome(uncaughtException(p5, a, "Error"), renamed, used, w)
        ELSE Outcome(Exit(p6, 0), renamed, used, w)

\* A faulty executeStep: every step is given the input of the command.
executeStep_onInput(p, a, tree, stepNo, inPath, tc, names) ==
    IF stepNo >= MaxSteps
    THEN convert(p, a, tree, inPath, tc, names)
    ELSE Outcome([Ran(p, [e |-> "xsltproc", step |-> stepNo,
                          inPath |-> InputPath,
                          outPath |-> OutPath(stepNo, p.repeat_no)])
                    EXCEPT !.pc = "xsltproc", !.stepNo = stepNo,
                           !.inPath = InputPath],
                 tree, <<>>, NoWalker)

\* executeStep(steps, stepNo, inPath, convert)
executeStep(p, a, tree, stepNo, inPath, tc, names) ==
    IF stepNo >= MaxSteps
    THEN convert(p, a, tree, inPath, tc, names)
    ELSE Outcome([Ran(p, [e |-> "xsltproc", step |-> stepNo,
                          inPath |-> inPath,
                          outPath |-> OutPath(stepNo, p.repeat_no)])
                    EXCEPT !.pc = "xsltproc", !.stepNo = stepNo,
                           !.inPath = inPath],
                 tree, <<>>, NoWalker)

\* simplify()
simplify(p, a, tree, tc, names) ==
    executeStep(Ran([p EXCEPT !.tempDir = TRUE], [e |-> "simplify"]), a,
                tree, 0, InputPath, tc, names)

\* The command was given its arguments and has run nothing yet.
InitCommand ==
    /\ args \in ParsedArgs
    /\ proc = [pc |-> "main", terminating |-> FALSE, err |-> <<>>,
               stepNo |-> 0, repeat_no |-> 0, inPath |-> InputPath,
               exitCode |-> 0 - 1, outputFile |-> [by |-> "nobody"],
               tempDir |-> FALSE, cleanedUp |-> FALSE, ran |-> <<>>]
    /\ \E g \in CommandSchemas : schema = g /\ orig = g
    /\ order = <<>>
    /\ writer = NoWalker
    /\ NoValidation /\ called = NoCall

\* The process takes the outcome of a part of the command.
Becomes(o) ==
    /\ proc' = o.proc
    /\ schema' = o.schema
    /\ order' = o.order
    /\ writer' = o.writer
    /\ UNCHANGED <<orig, called, validationVars>>

SimplifiedInput_never(a) == FALSE

\* if (args.simplified_input)
SimplifiedInput(a) == a.simplified_input

FormatVersionFatal_below2(a) == a.format_version < 2

\* if (args.format_version < 3) throw new Fatal(...)
FormatVersionFatal(a) == a.format_version < 3

\* The main script, from the parsing of the arguments on.
Main ==
    LET a == [args EXCEPT
                !.verbose = @ \/ args.timing,
                !.no_optimize_ids = @ \/ args.verbose_format]
    IN  /\ proc.pc = "main"
        /\ args' = a
        /\ \E tc \in TypeCheckOutcomes,
              names \in SortedKeys(GatheredNames(schema)) :
              Becomes(
                IF FormatVersionFatal(a)
                THEN Outcome(uncaughtException(proc, a, "Fatal"), schema,
                             <<>>, NoWalker)
                ELSE IF SimplifiedInput(a)
                     THEN convert(proc, a, schema, InputPath, tc, names)
                ELSE Outcome([Ran(proc, [e |-> "jing"]) EXCEPT !.pc = "jing"],
                             schema, <<>>, NoWalker))

\* child.stdout.on("data"): jing wrote some output.
JingData ==
    /\ proc.pc = "jing"
    /\ Len(proc.err) < MaxData
    /\ \E data \in JingOutput : proc' = [proc EXCEPT !.err = Append(@, data)]
    /\ UNCHANGED <<args, schema, orig, order, writer, called, validationVars>>

SchemaError_never(e) == FALSE

\* if (err.length !== 0): jing reported an error in the schema.
SchemaError(e) == Len(e) # 0

\* child.on("close"): jing is done.
JingClose ==
    LET err == WithoutPremature(BeforeDevNull(proc.err))
        p1 == [proc EXCEPT !.err = err]
        p2 == IF args.verbose THEN Ran(p1, [e |-> "stderr"]) ELSE p1
    IN  /\ proc.pc = "jing"
        /\ UNCHANGED args
        /\ \E tc \in TypeCheckOutcomes,
              names \in SortedKeys(GatheredNames(schema)) :
              Becomes(
                IF SchemaError(err)
                THEN Outcome(uncaughtException(p2, args, "Fatal"), schema,
                             <<>>, NoWalker)
                ELSE simplify(p2, args, schema, tc, names))

Repeated_never(stepNo, found) == FALSE

\* if (step.repeatWhen !== undefined) { if (step.repeatWhen(outPath)) ...:
\* the first step alone has a repeatWhen.
Repeated(stepNo, found) == stepNo = 0 /\ found

\* xsltproc.on("exit"): the run of a step ended with the status given,
\* having created its output or not; found tells whether the output of
\* step 1 still holds an include or an externalRef.  ran keeps what the
\* callback saw: the status, whether fs.existsSync found the output, and
\* what repeatWhen returned.
XsltprocExit ==
    /\ proc.pc = "xsltproc"
    /\ UNCHANGED args
    /\ \E status \in {0, 1}, exists \in BOOLEAN, found \in BOOLEAN,
          tc \in TypeCheckOutcomes,
          names \in SortedKeys(GatheredNames(schema)) :
          LET outPath == OutPath(proc.stepNo, proc.repeat_no)
              repeatWhen == proc.stepNo = 0
              ok == status = 0 /\ exists
              p1 == Ran(proc, [e |-> "xsltproc exit", status |-> status,
                               created |-> ok,
                               found |-> ok /\ repeatWhen /\ found])
          IN  /\ found => (repeatWhen /\ proc.repeat_no < MaxRepeats)
              /\ Becomes(
                   IF status # 0 \/ ~exists
                   THEN Outcome(uncaughtException(p1, args, "Fatal"),
                                schema, <<>>, NoWalker)
                   ELSE IF Repeated(proc.stepNo, found)
                        THEN executeStep([p1 EXCEPT !.repeat_no = @ + 1],
                                         args, schema, proc.stepNo, outPath,
                                         tc, names)
                   ELSE executeStep(p1, args, schema, proc.stepNo + 1,
                                    outPath, tc, names))

\* xmllint.on("exit"): process.exit(0), whatever the status of xmllint,
\* which wrote the output file if it succeeded.
XmllintExit ==
    /\ proc.pc = "xmllint"
    /\ \E status \in {0, 1} :
          proc' = Exit(Ran([proc EXCEPT
                              !.outputFile = IF status = 0
                                             THEN [by |-> "xmllint"]
                                             ELSE @],
                           [e |-> "xmllint exit", status |-> status]), 0)
    /\ UNCHANGED <<args, schema, orig, order, writer, called, validationVars>>

\* An exception reaches the handler while the process is terminating;
\* called keeps the exception and the process it found.
UncaughtLater ==
    /\ proc.terminating
    /\ called = NoCall
    /\ \E ex \in {"Fatal", "Error"} :
          /\ proc' = uncaughtException(proc, args, ex)
          /\ called' = [op |-> "uncaughtException", arg |-> ex,
                        before |-> proc, n |-> 1]
    /\ UNCHANGED <<args, schema, orig, order, writer, validationVars>>

NextCommand ==
    Main \/ JingData \/ JingClose \/ XsltprocExit \/ XmllintExit
        \/ UncaughtLater

SpecCommand == InitCommand /\ [][NextCommand]_vars

\* The command given a schema to simplify, with the options that decide what
\* follows the simplification: --simplify-only, --no-optimize-ids and
\* --allow-incomplete-types.
InitSteps ==
    /\ InitCommand
    /\ ~args.simplified_input /\ args.format_version = 3
    /\ ~args.include_paths /\ ~args.verbose_format
    /\ ~args.verbose /\ ~args.timing /\ ~args.keep_temp

\* The child processes end, and their exit callbacks run.
SpecSteps == InitSteps /\ [][NextCommand]_vars /\ WF_vars(XsltprocExit)

(***************************************************************************)
(* Properties of InterleaveWalker under Spec: one walker, fed any events   *)
(* and ended at any time.                                                  *)
(***************************************************************************)
Other(br) == IF br = "A" THEN "B" ELSE "A"

\* C1: while a branch of an interleave is in flight (it consumed more
\* enterStartTag than endTag events), fireEvent is not called on the other
\* branch.
C1_InFlightBranchOnly ==
    \A c \in last.log :
        c.t = "fire" => last.open[c.iw][Other(c.br)] = 0

\* C2: every InterleaveWalker's canEnd is walkerA.canEnd && walkerB.canEnd,
\* after construction and after every fireEvent, matched or not.
C2_CanEnd ==
    \A i \in InterleaveIds(heap) :
        heap[i].canEnd <=>
            (heap[heap[i].walkerA].canEnd /\ heap[heap[i].walkerB].canEnd)

\* A fireEvent that walkerB matched made an interleave that could not end at
\* first able to end.
C2_Witness ==
    /\ last.op = "fireEvent"
    /\ FireCall(root, "B", TRUE) \in last.log
    /\ ~HasEmptyPattern(pat)
    /\ heap[root].canEnd

\* C3: every InterleaveWalker's canEndAttribute is
\* !hasAttrs || (walkerA.canEndAttribute && walkerB.canEndAttribute), after
\* construction and after every fireEvent, of an attribute event or not.
C3_CanEndAttribute ==
    \A i \in InterleaveIds(heap) :
        heap[i].canEndAttribute <=>
            (~heap[i].hasAttrs \/
             (heap[heap[i].walkerA].canEndAttribute /\
              heap[heap[i].walkerB].canEndAttribute))

\* An attribute value that walkerB matched completed the attributes of an
\* interleave that has some.
C3_Witness ==
    /\ last.op = "fireEvent"
    /\ last.ev.name = "attributeValue"
    /\ FireCall(root, "B", TRUE) \in last.log
    /\ heap[root].hasAttrs
    /\ heap[root].canEndAttribute

\* C4: end() of an InterleaveWalker returns false if and only if its canEnd
\* is true when it is called.
C4_EndIffCanEnd ==
    \A c \in last.log : c.t = "end" => (c.ok <=> c.canEnd)

\* end() returned the errors of walkerB alone: walkerA could end, the
\* interleave could not.
C4_Witness ==
    /\ last.op = "end"
    /\ EndCall(root, FALSE, FALSE) \in last.log
    /\ heap[heap[root].walkerA].canEnd
    /\ last.res.errors # <<>>

\* C9: when end() or endAttributes() returns errors the walker is not ended,
\* and every event it matched before the call it still matches after it.
C9_UsableAfterErrors ==
    [][ (last'.op \in {"end", "endAttributes"} /\ ~last'.res.ok) =>
            /\ ~heap'[root].ended
            /\ \A ev \in Events :
                   fireEvent(heap, root, ev).matched =>
                       fireEvent(heap', root, ev).matched ]_vars

\* C10: hasEmptyPattern() of an Interleave is patA.hasEmptyPattern() &&
\* patB.hasEmptyPattern(), and is the canEnd of a fresh walker.
C10_HasEmptyPattern ==
    /\ HasEmptyPattern(pat) <=>
           (HasEmptyPattern(pat.patA) /\ HasEmptyPattern(pat.patB))
    /\ last.op = "new" => (heap[root].canEnd <=> HasEmptyPattern(pat))

\* A fresh walker of an interleave of which one branch only is nullable.
C10_Witness ==
    /\ last.op = "new"
    /\ HasEmptyPattern(pat.patA)
    /\ ~HasEmptyPattern(pat.patB)
    /\ ~heap[root].canEnd

(***************************************************************************)
(* Properties of cloning, under SpecClone.                                 *)
(***************************************************************************)
\* As long as a walker and its clone were fed the same events they are in
\* the same state (canEnd and canEndAttribute included) and returned the same
\* results.
C5_SameBehaviour ==
    (twin # 0 /\ solo = 0) =>
        /\ State(heap, twin) = State(heap, root)
        /\ last.who = "both" => last.other = last.res

\* An operation on one of a walker and its clone leaves the other as it was.
C5_Separate ==
    [][ solo' > solo =>
            IF last'.who = "root"
            THEN State(heap', twin) = State(heap, twin)
            ELSE State(heap', root) = State(heap, root) ]_vars

\* C5: a walker and its clone, fed the same events, return the same matched
\* flags, errors and end() results and have the same canEnd and
\* canEndAttribute; events fed to one of them do not change the other.
C5_ClonePreservesBehaviour == []C5_SameBehaviour /\ C5_Separate

\* The clone of a walker that had matched an event matched the next event as
\* the walker did.
C5_Witness ==
    /\ twin # 0 /\ solo = 0
    /\ last.op = "fireEvent" /\ last.who = "both"
    /\ last.res.matched /\ last.other.matched
    /\ heap[root].canEnd /\ ~HasEmptyPattern(pat)

\* C6: _clone(memo) called twice on an InterleaveWalker with the same memo
\* returns the same clone.
C6_SameCloneThroughMemo ==
    last.op = "cloneAgain" => last.id = twin

(***************************************************************************)
(* Commutativity, under SpecComm.                                          *)
(***************************************************************************)
\* C7: the walkers of Interleave(a, b) and Interleave(b, a) return the same
\* matched flag for each event and the same end() outcome.
C7_Commutative ==
    last.who = "both" =>
        /\ last.other.matched = last.res.matched
        /\ last.other.ok = last.res.ok

(***************************************************************************)
(* Order independence, under SpecDoc.                                      *)
(***************************************************************************)
\* C8: <foo><a/><b/></foo> and <foo><b/><a/></foo> produce no errors and
\* leave the interleave with canEnd true; <foo><a/></foo> produces its only
\* errors when foo is closed: those end() of the interleave returns.
C8_OrderIndependence ==
    pos = Len(doc) =>
        /\ doc \in {Doc(<<"a", "b">>), Doc(<<"b", "a">>)} =>
               /\ errs = <<>>
               /\ heap[heap[root].walker].canEnd
        /\ doc = Doc(<<"a">>) =>
               /\ errs # <<>>
               /\ errs = last.res.errors
               /\ EndCall(heap[root].walker, FALSE, FALSE) \in last.log

\* <foo><b/><a/></foo> was validated to its end.
C8_Witness ==
    /\ doc = Doc(<<"b", "a">>)
    /\ pos = Len(doc)
    /\ errs = <<>>
    /\ last.ev = Ev("endTag", "foo")

(***************************************************************************)
(* Properties of the renaming and of the JSON writer, under SpecJSON.      *)
(***************************************************************************)
\* The name, in the tree given, of the define or ref at a position.
NameAt(el, p) == ElementAt(el, p).name

\* C18: renameRefsDefines maps the n distinct names of the define and ref
\* elements one-to-one onto 1..n, a name that occurs more often getting the
\* smaller number, and elements that shared a name still share one.
C18_RenamedOneToOne ==
    order # <<>> =>
        LET names == GatheredNames(orig)
            n == Cardinality(DOMAIN names)
            P == NamedElements(orig)
        IN  /\ {NameAt(schema, p) : p \in P} = {String(i) : i \in 1..n}
            /\ \A p, q \in P :
                   (NameAt(orig, p) = NameAt(orig, q))
                       <=> (NameAt(schema, p) = NameAt(schema, q))
            /\ \A p, q \in P :
                   names[NameAt(orig, p)] > names[NameAt(orig, q)] =>
                       parseInt(NameAt(schema, p)) < parseInt(NameAt(schema, q))

\* Whether the token that opens an array of the output opens a pattern node:
\* the next token is a constructor other than Array.
OpensNode(out, i) ==
    /\ out[i] = Raw("[")
    /\ out[i + 1] \notin {Num(0), [t |-> "ctor", name |-> "Array"]}

\* Whether a token is a path string.
IsPath(tok) == tok.t = "str" /\ Len(tok.s) > 0 /\ Head(tok.s) = "/"

\* C19: in the output of a walk of a grammar, "o" has the OPTION_NO_PATHS bit
\* if and only if includePaths is false, and every pattern node carries its
\* path right after its constructor if and only if includePaths is true.
C19_PathsAndOption ==
    (writer.thrown = "") =>
        LET out == writer.output
        IN  /\ out[2].t = "header"
            /\ (out[2].o % 2 = 1) <=> ~writer.includePaths
            /\ \A i \in 1..Len(out) :
                   OpensNode(out, i) =>
                       (writer.includePaths <=>
                           (out[i + 2] = Raw(",") /\ IsPath(out[i + 3])))

\* A grammar whose names were renamed was written with its paths.
C19_Witness ==
    /\ order # <<>>
    /\ writer.thrown = ""
    /\ writer.includePaths
    /\ \E i \in 1..Len(writer.output) :
          /\ OpensNode(writer.output, i)
          /\ writer.output[i + 1] = Num(nameToCode("Define"))
          /\ IsPath(writer.output[i + 3])

RECURSIVE NamesInOrder(_)
RECURSIVE NamesInOrderOf(_, _)
NamesInOrderOf(el, i) ==
    IF i > Len(el.children) THEN <<>>
    ELSE NamesInOrder(el.children[i]) \o NamesInOrderOf(el, i + 1)

\* The names of the define and ref elements of a tree, in document order.
NamesInOrder(el) ==
    (IF el.local \in {"define", "ref"} THEN <<el.name>> ELSE <<>>)
        \o NamesInOrderOf(el, 1)

\* The places of the output where a Ref or a Define node opens.
NamedNodes(out) ==
    { i \in 1..Len(out) :
        /\ OpensNode(out, i)
        /\ out[i + 1] \in
               { Num(nameToCode("Ref")), Num(nameToCode("Define")),
                 [t |-> "ctor", name |-> "Ref"],
                 [t |-> "ctor", name |-> "Define"] } }

\* The tokens of the output that are the name of a Ref or Define node, in
\* order: the item after the constructor, or after the path.
NameTokens(out, includePaths) ==
    LET nodes == NamedNodes(out)
    IN  [k \in 1..Cardinality(nodes) |->
            LET i == CHOOSE i \in nodes :
                         Cardinality({j \in nodes : j < i}) = k - 1
            IN  out[IF includePaths THEN i + 5 ELSE i + 3]]

\* C20: the name of every ref and define node is written as a number when
\* it is made only of decimal digits, as a string otherwise.
C20_NumericNames ==
    (writer.thrown = "") =>
        LET names == NamesInOrder(schema)
            toks == NameTokens(writer.output, writer.includePaths)
        IN  /\ Len(toks) = Len(names)
            /\ \A k \in 1..Len(names) :
                   IF IsDigits(names[k]) THEN toks[k].t = "num"
                   ELSE toks[k].t = "str"

\* A grammar with two names, renamed, was written: its names are numbers.
C20_Witness ==
    /\ Len(order) = 2
    /\ writer.thrown = ""
    /\ \E k \in 1..Len(NamesInOrder(schema)) :
          NameTokens(writer.output, writer.includePaths)[k] = Num(2)

(***************************************************************************)
(* Properties of salve-convert, under SpecCommand.                         *)
(***************************************************************************)
\* Whether the process ran something of one of the kinds given.
HasRun(kinds) == \E i \in 1..Len(proc.ran) : proc.ran[i].e \in kinds

Exited(code) == proc.pc = "exited" /\ proc.exitCode = code

NotWritten == proc.outputFile.by = "nobody"

\* C11: with a --format-version less than 3 the run ends with exit code 1
\* before jing or xsltproc is spawned, before convert runs and without
\* writing the output file.
C11_LowVersionFatal ==
    (args.format_version < 3 /\ proc.pc # "main") =>
        /\ Exited(1)
        /\ ~HasRun({"jing", "simplify", "xsltproc", "convert", "xmllint"})
        /\ NotWritten

\* The run of a command that was to convert a simplified schema to format
\* version 2 ended with exit code 1.
C11_Witness ==
    /\ args.format_version = 2
    /\ args.simplified_input
    /\ Exited(1)
    /\ proc.terminating

\* C12: with a --format-version other than 3 the run ends with exit code 1,
\* never with exit code 0, and never writes the output file.
C12_OtherVersionFatal ==
    args.format_version # 3 =>
        /\ proc.pc = "exited" => proc.exitCode = 1
        /\ NotWritten

\* C13: without --simplified-input, simplify() is called only after jing
\* closed without a schema error; when jing reported one (err is not empty
\* once the /dev/null messages are removed) the run ends with exit code 1
\* and neither simplify() nor xsltproc nor convert() runs.
C13_SchemaErrorFatal ==
    ~args.simplified_input =>
        /\ HasRun({"simplify", "xsltproc", "convert", "xmllint"}) =>
               /\ proc.ran[1].e = "jing"
               /\ proc.pc # "jing"
               /\ proc.err = <<>>
        /\ (proc.pc \notin {"main", "jing"} /\ proc.err # <<>>) =>
               /\ Exited(1)
               /\ ~HasRun({"simplify", "xsltproc", "convert", "xmllint"})

\* jing reported a schema error before its message about /dev/null, and the
\* run ended with exit code 1.
C13_Witness ==
    /\ ~args.simplified_input
    /\ proc.err = <<"error">>
    /\ Exited(1)
    /\ HasRun({"jing"})

\* C14: when the datatype check gathered warnings, the run ends with exit
\* code 1 and writes no output if --allow-incomplete-types was not given;
\* if it was given, with any value, the output is written and the run ends
\* with exit code 0.
C14_IncompleteTypes ==
    \A i \in 1..Len(proc.ran) :
        (proc.ran[i].e = "typeCheck" /\ proc.ran[i].warnings # 0) =>
            IF args.allow_incomplete_types.given
            THEN Exited(0) /\ proc.outputFile.by = "writeFileSync"
            ELSE Exited(1) /\ NotWritten

\* C15: with --simplify-only convert() only runs xmllint on the simplified
\* file: no renaming, no datatype check, no walk and no writeFileSync.
C15_SimplifyOnly ==
    args.simplify_only =>
        /\ ~HasRun({"rename", "typeCheck", "warning", "walk", "writeFileSync"})
        /\ writer = NoWalker
        /\ proc.outputFile.by # "writeFileSync"
        /\ \A i \in 1..Len(proc.ran) :
               proc.ran[i].e = "convert" =>
                   /\ i < Len(proc.ran)
                   /\ proc.ran[i + 1] =
                          [e |-> "xmllint", path |-> proc.ran[i].path]

\* A schema was validated and simplified, and xmllint wrote the output.
C15_Witness ==
    /\ args.simplify_only
    /\ ~args.simplified_input
    /\ Exited(0)
    /\ proc.outputFile.by = "xmllint"
    /\ HasRun({"xsltproc"})

\* C16: with --simplified-input the main script, once past the check of
\* the format version, calls convert() on input_path; jing is never
\* spawned, simplify() is never called and no xsltproc step runs.
C16_SimplifiedInput ==
    args.simplified_input =>
        /\ ~HasRun({"jing", "simplify", "xsltproc"})
        /\ \A i \in 1..Len(proc.ran) :
               proc.ran[i].e = "convert" => proc.ran[i].path = InputPath
        /\ (proc.pc # "main" /\ args.format_version >= 3) =>
               proc.ran[1] = [e |-> "convert", path |-> InputPath]

\* A simplified schema was converted and written.
C16_Witness ==
    /\ args.simplified_input
    /\ Exited(0)
    /\ proc.outputFile.by = "writeFileSync"
    /\ proc.ran[1] = [e |-> "convert", path |-> InputPath]

\* C17: when convert() converts to JSON, the names of define and ref are
\* renamed if and only if neither --no-optimize-ids nor --verbose-format
\* was given; when they are not, every define and ref has its original
\* name in the output.
C17_RenamingIffOptimizing ==
    HasRun({"typeCheck"}) =>
        /\ HasRun({"rename"}) <=>
               (~args.no_optimize_ids /\ ~args.verbose_format)
        /\ ~HasRun({"rename"}) =>
               /\ schema = orig
               /\ writer # NoWalker =>
                      /\ writer.thrown = ""
                      /\ NameTokens(writer.output, writer.includePaths) =
                             [k \in 1..Len(NamesInOrder(orig)) |->
                                 Quoted(Escape(NamesInOrder(orig)[k]))]

\* A schema of two names was written in the verbose format, not renamed.
C17_Witness ==
    /\ args.verbose_format
    /\ Exited(0)
    /\ ~HasRun({"rename"})
    /\ proc.outputFile.by = "writeFileSync"
    /\ Len(NamesInOrder(schema)) > 2

(***************************************************************************)
(* Properties of a conversion walker under SpecWalker: one walker, its     *)
(* methods called in any order.                                            *)
(***************************************************************************)
IsOpener(tok) == tok.t = "raw" /\ tok.v \in {"[", "{"}

IsCloser(tok) == tok.t = "raw" /\ tok.v \in {"]", "}"}

IsSeparator(tok) == tok.t = "raw" /\ tok.v = ","

\* What the last call appended to the output.
Written ==
    SubSeq(writer.output, Len(called.before.output) + 1, Len(writer.output))

RECURSIVE Unclosed(_, _, _)
\* The closing brackets that the tokens of out from the i-th on leave
\* awaited, innermost first, given those awaited before them; "mismatch"
\* when a closing bracket is not the one awaited.
Unclosed(out, i, awaited) ==
    IF i > Len(out) THEN awaited
    ELSE IF IsOpener(out[i])
         THEN Unclosed(out, i + 1,
                       <<IF out[i].v = "[" THEN "]" ELSE "}">> \o awaited)
    ELSE IF IsCloser(out[i])
         THEN IF awaited # <<>> /\ Head(awaited) = out[i].v
              THEN Unclosed(out, i + 1, Tail(awaited))
              ELSE <<"mismatch">>
    ELSE Unclosed(out, i + 1, awaited)

\* C21: closeConstruct(close) on a walker with an open construct throws
\* exactly when close is not the close string that construct was opened
\* with, and pops the construct; a walk never makes closeConstruct throw,
\* every closing bracket it writes closes the innermost construct still
\* open with the bracket that matches its opening, and when the walk
\* returns every construct it opened is closed and the stack of constructs
\* is as it was before the walk.
C21_ConstructDiscipline ==
    /\ (called.op = "closeConstruct" /\ called.before.constructState # <<>>)
        => /\ writer.thrown = "construct mismatch"
                <=> called.arg # Head(called.before.constructState).close
           /\ writer.constructState = Tail(called.before.constructState)
    /\ called.op = "walk"
        => /\ writer.thrown # "construct mismatch"
           /\ Unclosed(Written, 1, <<>>) # <<"mismatch">>
           /\ writer.thrown = ""
                => /\ Unclosed(Written, 1, <<>>) = <<>>
                   /\ Len(writer.constructState)
                         = Len(called.before.constructState)
                   /\ \A i \in 1..Len(writer.constructState) :
                         /\ writer.constructState[i].close
                               = called.before.constructState[i].close
                         /\ i > 1 => writer.constructState[i]
                                        = called.before.constructState[i]

\* A blank walker walked a grammar, which nests braces and brackets, and
\* is left with the one construct it started with.
C21_Witness ==
    /\ called.op = "walk" /\ called.arg.local = "grammar"
    /\ called.before.output = <<>>
    /\ writer.thrown = ""
    /\ Len(writer.constructState) = 1
    /\ \E j \in 1..Len(Written) : IsCloser(Written[j]) /\ Written[j].v = "}"

\* C22: a walk made right after reset() writes exactly the output that a
\* freshly constructed walker with the same options writes for the same
\* tree, whatever calls preceded the reset.
C22_ResetRestoresBlank ==
    (called.op = "walk" /\ called.n = 1
        /\ called.before = reset(called.before))
        => writer.output
              = walk(NewDefaultConversionWalker(3, writer.includePaths,
                                                writer.verbose),
                     called.arg).output

\* The token before position i of what a walk wrote; before the first one,
\* the bracket of the construct that was open when the walk started if
\* nothing was written in it yet, and an item of it otherwise.
Before(i) ==
    IF i > 1 THEN Written[i - 1]
    ELSE IF called.before.constructState = <<>>
            \/ Head(called.before.constructState).first
         THEN Raw("[")
    ELSE Num(0)

\* An item starts at a token that is neither a separator nor a closing
\* bracket; the array of "d" is the value of a key of the header.
StartsItem(i) ==
    /\ ~IsSeparator(Written[i]) /\ ~IsCloser(Written[i])
    /\ Before(i).t # "header"

RECURSIVE Unescape(_)
\* What a reader of JSON makes of the text of a string: the character after
\* a backslash stands for itself.
Unescape(s) ==
    IF s = <<>> THEN <<>>
    ELSE IF Head(s) = "\\" /\ Len(s) > 1
         THEN <<s[2]>> \o Unescape(Tail(Tail(s)))
    ELSE <<Head(s)>> \o Unescape(Tail(s))

\* The items of a value that a walk wrote: the strings after the
\* constructor and, if paths are included, the path.
ValueItems ==
    LET strings == SelectSeq(Written, LAMBDA tok : tok.t = "str")
        items == IF writer.includePaths THEN Tail(strings) ELSE strings
    IN  [i \in 1..Len(items) |-> Unescape(items[i].s)]

\* The value read back: the items missing at the end are the defaults.
ValueRead(items) ==
    [text |-> items[1],
     type |-> IF Len(items) >= 2 THEN items[2] ELSE TokenType,
     datatypeLibrary |-> IF Len(items) >= 3 THEN items[3] ELSE <<>>,
     ns |-> IF Len(items) >= 4 THEN items[4] ELSE <<>>]

\* C24: the walk of a value element, whatever its type, datatypeLibrary and
\* ns, by a walker that has a construct to write in, does not throw and
\* writes between 1 and 4 items, and the value, type, datatypeLibrary
\* and ns read back from them, "token", "" and "" standing for the items
\* missing at the end, are those of the element.
C24_ValueEncoding ==
    (called.op = "walk" /\ called.arg.local = "value"
        /\ called.before.constructState # <<>>)
        => /\ writer.thrown = ""
           /\ Len(ValueItems) \in 1..4
           /\ ValueRead(ValueItems)
                 = [text |-> called.arg.text, type |-> called.arg.type,
                    datatypeLibrary |-> called.arg.datatypeLibrary,
                    ns |-> called.arg.ns]

\* A value with a namespace and the default type and library was written:
\* four items, the defaults written out.
C24_Witness ==
    /\ called.op = "walk" /\ called.arg.local = "value"
    /\ called.arg.ns # <<>> /\ called.arg.datatypeLibrary = <<>>
    /\ called.arg.type = TokenType
    /\ ~writer.verbose
    /\ Len(ValueItems) = 4

(***************************************************************************)
(* Properties of the translation of regular expressions, under SpecRegexp. *)
(***************************************************************************)
\* The string holds a category escape: \p{ or \P{.
HasCategoryEscape(s) ==
    \E i \in 1..(Len(s) - 2) :
       s[i] = "\\" /\ s[i + 1] \in {"p", "P"} /\ s[i + 2] = "{"

\* C25: the translation of a regular expression starts with ^ and ends
\* with $, the matcher is an XRegExp when the translation holds a category
\* escape (\d and \D bring \p{Nd}) and a RegExp when it holds none, and
\* each regular expression of the conversion tests is translated to the
\* string and the class of matcher that its test expects.
C25_AnchoredAndUnicodeAware ==
    called.op = "parse"
        => /\ Head(called.result.string) = "^"
           /\ called.result.string[Len(called.result.string)] = "$"
           /\ Len(called.result.string) >= 2
           /\ called.result.constructor
                 = IF HasCategoryEscape(called.result.string)
                   THEN "XRegExp" ELSE "RegExp"
           /\ \A i \in 1..Len(conversionTests) :
                 conversionTests[i].re = called.arg
                    => /\ Source(called.arg) = conversionTests[i].source
                       /\ called.result.string = conversionTests[i].expected
                       /\ called.result.constructor
                             = conversionTests[i].constructor

\* A negated class with \D and no category escape was translated: the
\* matcher is an XRegExp.
C25_Witness ==
    /\ called.op = "parse"
    /\ \E i \in 1..Len(called.arg) :
          /\ called.arg[i].k = "class" /\ called.arg[i].neg
          /\ \E j \in 1..Len(called.arg[i].members) :
                called.arg[i].members[j] = MultiCharEsc("D")
          /\ \A j \in 1..Len(called.arg[i].members) :
                called.arg[i].members[j].k # "cat"
          /\ called.arg[i].sub = <<>>
    /\ called.result.constructor = "XRegExp"

(***************************************************************************)
(* Properties of the calls made on an InterleaveWalker, under Spec.        *)
(***************************************************************************)
\* The state of a walker, that of the name resolver left out: the
\* resolver is shared by all the walkers.
OwnState(h, id) ==
    State([h EXCEPT ![heap[root].nameResolver] = NewNameResolver], id)

\* A step in which fireEvent was called on the walker under test, an
\* InterleaveWalker that has not ended: what the call did to the branches.
FireEventFrame ==
    (last'.op = "fireEvent" /\ last' # last
        /\ heap[root].k = "Interleave" /\ ~heap[root].ended)
        => LET this == heap[root]
               log == last'.log
               res == last'.res
               fedA == \E m \in BOOLEAN : FireCall(root, "A", m) \in log
               fedB == \E m \in BOOLEAN : FireCall(root, "B", m) \in log
               matchedA == FireCall(root, "A", TRUE) \in log
               matchedB == FireCall(root, "B", TRUE) \in log
               retA == fireEvent(heap, this.walkerA, last'.ev)
               retB == fireEvent(heap, this.walkerB, last'.ev)
           IN  /\ fedA \/ (~this.hasAttrs /\ ~res.matched /\ heap' = heap)
               /\ fedB => FireCall(root, "A", FALSE) \in log
               /\ res.matched <=> (matchedA \/ matchedB)
               /\ ~(matchedA /\ matchedB)
               /\ matchedA
                    => /\ ~fedB
                       /\ res = FireRes(retA)
                       /\ OwnState(heap', this.walkerA)
                             = OwnState(retA.h, this.walkerA)
                       /\ OwnState(heap', this.walkerB)
                             = OwnState(heap, this.walkerB)
               /\ matchedB
                    => /\ res = FireRes(retB)
                       /\ OwnState(heap', this.walkerB)
                             = OwnState(retB.h, this.walkerB)
                       /\ OwnState(heap', this.walkerA)
                             = OwnState(heap, this.walkerA)

EndedFrame ==
    /\ (heap[root].k = "Interleave" /\ heap[root].ended /\ twin = 0)
        => /\ heap'[root].ended
           /\ (last' # last /\ last'.op = "fireEvent")
                => /\ ~last'.res.matched
                   /\ \A c \in last'.log : c.t # "fire"
                   /\ heap' = heap
           /\ (last' # last /\ last'.op \in {"end", "endAttributes"})
                => /\ last'.res.ok /\ last'.res.errors = <<>>
                   /\ heap' = heap
    /\ (heap[root].k = "Interleave" /\ ~heap[root].ended /\ twin = 0
            /\ heap[root].canEnd /\ last' # last /\ last'.op = "end")
        => last'.res.ok /\ heap'[root].ended

\* An InterleaveWalker that has ended offers no event.
EndedOffersNothing ==
    \A id \in InterleaveIds(heap) :
       heap[id].ended
          => possible(heap, id) = {} /\ possibleAttributes(heap, id) = {}

\* C27: end() on an InterleaveWalker that can end returns false and marks
\* the walker ended, and the walker stays ended: every later fireEvent
\* returns matched = false, calls no branch and changes nothing (canEnd and
\* canEndAttribute included), possible() and possibleAttributes() return
\* the empty set, and end() and endAttributes() return false.
C27_EndedForGood == []EndedOffersNothing /\ [][EndedFrame]_vars

\* An event was fired on an InterleaveWalker that had ended, one of whose
\* branches would still accept an event.
C27_Witness ==
    /\ heap[root].k = "Interleave" /\ heap[root].ended
    /\ last.op = "fireEvent"
    /\ possible(heap, heap[root].walkerA)
          \cup possible(heap, heap[root].walkerB) # {}

(***************************************************************************)
(* Properties of the simplification steps, under SpecCommand.              *)
(***************************************************************************)
\* The ith thing the process ran is of one of the kinds given.
RanAt(i, kinds) == i \in 1..Len(proc.ran) /\ proc.ran[i].e \in kinds

\* The ith thing the process ran is the exit of an xsltproc that succeeded.
SucceededAt(i) ==
    /\ RanAt(i, {"xsltproc exit"})
    /\ proc.ran[i].status = 0 /\ proc.ran[i].created

\* The run of a step follows simplify(), or the successful exit of the run
\* before it, whose output it reads.
StepsInOrder ==
    /\ proc.pc = "xsltproc" => RanAt(Len(proc.ran), {"xsltproc"})
    /\ \A i \in 1..Len(proc.ran) :
          RanAt(i, {"xsltproc"}) =>
             /\ proc.ran[i].step \in 0..(MaxSteps - 1)
             /\ \/ /\ RanAt(i - 1, {"simplify"})
                   /\ proc.ran[i].step = 0
                   /\ proc.ran[i].inPath = InputPath
                \/ /\ SucceededAt(i - 1) /\ RanAt(i - 2, {"xsltproc"})
                   /\ proc.ran[i].inPath = proc.ran[i - 2].outPath
                   /\ proc.ran[i].step \in
                         {proc.ran[i - 2].step, proc.ran[i - 2].step + 1}
                   /\ proc.ran[i].outPath # proc.ran[i - 2].outPath
             /\ i < Len(proc.ran) => RanAt(i + 1, {"xsltproc exit"})
             /\ i = Len(proc.ran) => proc.pc = "xsltproc"

\* convert is called once at most; after simplify(), with the output of the
\* last step, every xsltproc having succeeded.
AfterLastStep ==
    \A i \in 1..Len(proc.ran) :
       RanAt(i, {"convert"}) =>
          /\ \A j \in 1..Len(proc.ran) : RanAt(j, {"convert"}) => j = i
          /\ HasRun({"simplify"}) =>
                /\ SucceededAt(i - 1) /\ RanAt(i - 2, {"xsltproc"})
                /\ proc.ran[i - 2].step = MaxSteps - 1
                /\ proc.ran[i].path = proc.ran[i - 2].outPath
                /\ \A j \in 1..i :
                      RanAt(j, {"xsltproc exit"}) => SucceededAt(j)
                /\ \A s \in 0..(MaxSteps - 1) :
                      \E j \in 1..i :
                         RanAt(j, {"xsltproc"}) /\ proc.ran[j].step = s

\* An xsltproc that fails is the last, convert is not called and the exit
\* code is 1.
FailedStepFatal ==
    \A i \in 1..Len(proc.ran) :
       (RanAt(i, {"xsltproc exit"}) /\ ~SucceededAt(i)) =>
          /\ Exited(1)
          /\ ~HasRun({"convert"})
          /\ \A j \in (i + 1)..Len(proc.ran) :
                RanAt(j, {"uncaughtException", "stderr"})

\* C28: the simplification steps run one at a time, in ascending order of
\* step number, each reading the output of the run before it; convert, the
\* after callback, is called at most once, with the output of the last
\* step, and only after every xsltproc exited with status 0 and created its
\* output; an xsltproc that exits with another status, or without its
\* output, ends the run with exit code 1 and convert is not called.
C28_StepsInOrder == StepsInOrder /\ AfterLastStep /\ FailedStepFatal

\* convert was called after the steps, of which the first was repeated.
C28_Witness ==
    /\ HasRun({"convert"})
    /\ \E i \in 1..Len(proc.ran) :
          RanAt(i, {"xsltproc"}) /\ proc.ran[i].outPath.repeat_no > 0

\* The ith thing the process ran is the exit of an xsltproc that failed.
FailedAt(i) == RanAt(i, {"xsltproc exit"}) /\ ~SucceededAt(i)

\* The first step is run again, on its own output, when that output holds an
\* include or an externalRef, and the second step is run on it when not.
RepeatWhileFound ==
    \A i \in 1..Len(proc.ran) :
       (SucceededAt(i) /\ RanAt(i - 1, {"xsltproc"})
            /\ proc.ran[i - 1].step = 0) =>
          /\ RanAt(i + 1, {"xsltproc"})
          /\ proc.ran[i + 1].inPath = proc.ran[i - 1].outPath
          /\ proc.ran[i + 1].step = IF proc.ran[i].found THEN 0 ELSE 1
          /\ proc.ran[i].found =>
                proc.ran[i + 1].outPath.repeat_no
                    = proc.ran[i - 1].outPath.repeat_no + 1

\* Once simplify() was called, convert is called unless an xsltproc fails.
StepsEnd ==
    HasRun({"simplify"})
        ~> (HasRun({"convert"}) \/ \E i \in 1..Len(proc.ran) : FailedAt(i))

\* C29: the first simplification step is run again, on its own previous
\* output, for as long as that output holds an include or an externalRef,
\* and the second step is run as soon as it does not; when every xsltproc
\* succeeds and the output of some repetition holds neither, convert, the
\* after callback, is eventually called.
C29_RepeatsThenConverts == []RepeatWhileFound /\ StepsEnd

\* convert was called after a run of the first step whose output held an
\* include or an externalRef.
C29_Witness ==
    /\ HasRun({"convert"})
    /\ \E i \in 1..Len(proc.ran) : SucceededAt(i) /\ proc.ran[i].found

(***************************************************************************)
(* Properties of the uncaughtException handler, under SpecCommand.         *)
(***************************************************************************)
\* The exceptions the handler acted on.
Handled == {i \in 1..Len(proc.ran) : RanAt(i, {"uncaughtException"})}

\* The handler acted on one exception at most, terminating is set when it
\* did, and a Fatal it acted on ended the process with exit code 1.
HandledOnce ==
    /\ \A i, j \in Handled : i = j
    /\ proc.terminating <=> Handled # {}
    /\ \A i \in Handled : proc.ran[i].ex = "Fatal" => Exited(1)

\* Once terminating is set nothing the process does changes it: terminating
\* stays set, and there is no exit, no cleanup and nothing more is run.
TerminatingFrame == proc.terminating => proc' = proc

\* C30: the uncaughtException handler acts on one exception at most:
\* terminating is set on the first exception and never reset, an exception
\* that arrives afterwards causes no process.exit, no temp.cleanup and no
\* rethrow, and a first exception that is a Fatal leads to exit code 1.
C30_HandlesOneException == []HandledOnce /\ [][TerminatingFrame]_vars

\* After a Fatal the handler was given another exception, not a Fatal.
C30_Witness ==
    /\ called.op = "uncaughtException" /\ called.arg = "Error"
    /\ called.before.terminating
    /\ \E i \in Handled : proc.ran[i].ex = "Fatal"

(***************************************************************************)
(* Properties of the exit code of salve-convert, under SpecCommand.        *)
(***************************************************************************)
\* The status with which xmllint exited was 0.
XmllintSucceeded ==
    \E i \in 1..Len(proc.ran) :
       RanAt(i, {"xmllint exit"}) /\ proc.ran[i].status = 0

\* C31: salve-convert exits with code 0 only when the run succeeded: without
\* --simplify-only, after convert wrote the output file; with
\* --simplify-only, only if xmllint itself exited with status 0.
C31_ExitZeroOnlyOnSuccess ==
    Exited(0) =>
        IF args.simplify_only
        THEN XmllintSucceeded /\ proc.outputFile.by = "xmllint"
        ELSE /\ proc.outputFile.by = "writeFileSync"
             /\ RanAt(Len(proc.ran), {"writeFileSync"})

====
